---- MODULE Spec2Model ----
(***************************************************************************)
(* Model of shcv (Sync Helm Chart Values): the template scanner of         *)
(* pkg/shcv/parser.go and the reference reconciliation of                  *)
(* pkg/shcv/shcv.go.  Go strings are sequences of one-character strings;   *)
(* offsets are 0-based as in the source.                                   *)
(***************************************************************************)
EXTENDS Integers, Sequences, FiniteSets, TLC

VARIABLES
    input,      \* parser.input: the template text being scanned
    pos,        \* parser.pos
    lineNum,    \* parser.lineNum
    refs,       \* the refs slice built by parser.parse
    attempts,   \* history: one record per parseValueRef call
    pc,         \* position of the ParseFile call: "parse", "done", "panic"
    ValuesFiles, \* Chart.ValuesFiles: a sequence of [Values, Changed]
    References, \* Chart.References
    Templates,  \* Chart.Templates: the paths of the template files
    disk,       \* the template files: path -> [content, readable, writable]
    chartPc,    \* position of the caller of the Chart: "idle", "loaded",
                \* "processed", "reloaded", "reprocessed", "panic"
    before,     \* history: ValuesFiles when the last ProcessReferences began
    mid,        \* history: ValuesFiles after the first pass of that call
    diskBefore, \* history: disk when the last call on the Chart began
    err,        \* the error returned by the last call: the parts of its message
                \* that are joined by ": ", <<>> for nil
    config,     \* Chart.config: [ValuesFileName, TemplatesDir, Verbose]
    opts,       \* history: the options NewChart was called with
    runs        \* the processes that work on the chart at the same time:
                \* run -> [pc, Values, Changed, seen]

parserVars == <<input, pos, lineNum, refs, attempts, pc>>

chartVars == <<ValuesFiles, References, Templates, disk, chartPc, before, mid, diskBefore, err,
               config, opts, runs>>

optionVars == <<config, opts, runs>>

vars == <<input, pos, lineNum, refs, attempts, pc,
          ValuesFiles, References, Templates, disk, chartPc, before, mid, diskBefore, err,
          config, opts, runs>>

(***************************************************************************)
(* Bytes and strings                                                       *)
(***************************************************************************)

\* the zero byte returned by parser.current past the end of the input
NUL == "NUL"

\* the result of an index expression outside the string (Go runtime panic)
OutOfRange == "PANIC"

\* s[i] of Go, 0-based, with its implicit bounds check
Index(s, i) == IF i >= 0 /\ i < Len(s) THEN s[i + 1] ELSE OutOfRange

\* s[i:j] of Go, with its implicit bounds check
Slice(s, i, j) ==
    IF 0 <= i /\ i <= j /\ j <= Len(s) THEN SubSeq(s, i + 1, j) ELSE <<OutOfRange>>

LowerCase == {"a", "b", "c", "d", "e", "f", "g", "h", "i", "j", "k", "l", "m", "n", "o", "p", "q", "r", "s", "t", "u", "v", "w", "x", "y", "z"}

UpperCase == {"A", "B", "C", "D", "E", "F", "G", "H", "I", "J", "K", "L", "M", "N", "O", "P", "Q", "R", "S", "T", "U", "V", "W", "X", "Y", "Z"}

Digits == {"0", "1", "2", "3", "4", "5", "6", "7", "8", "9"}

isDigit(ch) == ch \in Digits

isAlphaNumeric(ch) == ch \in LowerCase \/ ch \in UpperCase \/ ch \in Digits

isWhitespace(ch) == ch = " " \/ ch = "\t" \/ ch = "\n" \/ ch = "\r"

isValidPathChar(ch) == isAlphaNumeric(ch) \/ ch = "." \/ ch = "-" \/ ch = "_"

(***************************************************************************)
(* Token constants of the scanner                                          *)
(***************************************************************************)

openBrace == <<"{", "{">>

closeBrace == <<"}", "}">>

valuePrefix == <<".", "V", "a", "l", "u", "e", "s", ".">>

defaultPipe == <<"|">>

defaultFunc == <<"d", "e", "f", "a", "u", "l", "t">>

\* the source identifier handed to ParseFile
TemplatePath == "t.yaml"

(***************************************************************************)
(* The parser: a record [input, pos, lineNum, template, panic]; panic is   *)
(* set when an index expression of the scanner leaves the input.           *)
(***************************************************************************)

newParser(in, template) ==
    [input |-> in, pos |-> 0, lineNum |-> 1, template |-> template,
     panic |-> FALSE, unclosed |-> FALSE]

current(p) ==
    IF p.pos >= Len(p.input) THEN NUL ELSE Index(p.input, p.pos)

\* p.pos++
Advance(p) == [p EXCEPT !.pos = @ + 1]

\* the parser after an index expression panicked
Panicked(p) == [p EXCEPT !.panic = TRUE]

\* the parser after parseDefaultValue ran out of input inside a quoted string
Unclosed(p) == [p EXCEPT !.unclosed = TRUE]

\* match without the check that s fits into the rest of the input
matchNoLengthCheck(p, s) ==
    LET sl == Slice(p.input, p.pos, p.pos + Len(s))
    IN  IF sl = <<OutOfRange>> THEN [ok |-> FALSE, p |-> Panicked(p)]
        ELSE IF sl = s THEN [ok |-> TRUE, p |-> [p EXCEPT !.pos = @ + Len(s)]]
        ELSE [ok |-> FALSE, p |-> p]

match(p, s) ==
    IF p.pos + Len(s) > Len(p.input)
    THEN [ok |-> FALSE, p |-> p]
    ELSE LET sl == Slice(p.input, p.pos, p.pos + Len(s))
         IN  IF sl = <<OutOfRange>> THEN [ok |-> FALSE, p |-> Panicked(p)]
             ELSE IF sl = s THEN [ok |-> TRUE, p |-> [p EXCEPT !.pos = @ + Len(s)]]
             ELSE [ok |-> FALSE, p |-> p]

RECURSIVE skipWhitespace(_)
skipWhitespace(p) ==
    IF ~p.panic /\ p.pos < Len(p.input) /\ isWhitespace(current(p))
    THEN skipWhitespace([p EXCEPT !.lineNum = IF current(p) = "\n" THEN @ + 1 ELSE @,
                                  !.pos = @ + 1])
    ELSE IF current(p) = OutOfRange THEN Panicked(p) ELSE p

\* the loop of parseValuePath with its two locals
RECURSIVE parseValuePathLoop(_, _, _)
parseValuePathLoop(p, path, lastWasDot) ==
    LET ch == current(p)
        out == [path |-> IF lastWasDot THEN <<>> ELSE path, p |-> p]
    IN  IF p.pos < Len(p.input)
        THEN IF ch = OutOfRange THEN [path |-> <<>>, p |-> Panicked(p)]
             ELSE IF ch = "."
             THEN IF lastWasDot
                  THEN [path |-> <<>>, p |-> p]
                  ELSE parseValuePathLoop(Advance(p), Append(path, ch), TRUE)
             ELSE IF isValidPathChar(ch)
             THEN parseValuePathLoop(Advance(p), Append(path, ch), FALSE)
             ELSE out
        ELSE out

\* parseValuePath with lastWasDot starting as false
parseValuePathLeadingDot(p) == parseValuePathLoop(p, <<>>, FALSE)

parseValuePath(p) == parseValuePathLoop(p, <<>>, TRUE)

\* the quoted-string loop of parseDefaultValue
RECURSIVE parseQuotedLoop(_, _, _, _)
parseQuotedLoop(p, quote, value, escaped) ==
    CASE p.pos >= Len(p.input) ->
             [value |-> <<>>, p |-> Unclosed(p)]
      [] p.pos < Len(p.input) /\ escaped ->
             parseQuotedLoop(Advance(p), quote, Append(value, current(p)), FALSE)
      [] p.pos < Len(p.input) /\ ~escaped /\ current(p) = "\\" ->
             parseQuotedLoop(Advance(p), quote, value, TRUE)
      [] p.pos < Len(p.input) /\ ~escaped /\ current(p) = quote ->
             [value |-> value, p |-> Advance(p)]
      [] OTHER ->
             parseQuotedLoop(Advance(p), quote, Append(value, current(p)), escaped)

\* the numeric loop of parseDefaultValue
RECURSIVE parseNumericLoop(_, _)
parseNumericLoop(p, value) ==
    IF p.pos < Len(p.input) /\ (isDigit(current(p)) \/ current(p) = ".")
    THEN parseNumericLoop(Advance(p), Append(value, current(p)))
    ELSE [value |-> value, p |-> IF current(p) = OutOfRange THEN Panicked(p) ELSE p]

parseDefaultValue(p0) ==
    LET p == skipWhitespace(p0)
    IN  IF current(p) = "\"" \/ current(p) = "'"
        THEN parseQuotedLoop(Advance(p), current(p), <<>>, FALSE)
        ELSE parseNumericLoop(p, <<>>)

\* the inner loop of parseValueRef: skip to the next pipe or closing brace
RECURSIVE skipFunction(_)
skipFunction(p) ==
    IF ~p.panic /\ p.pos < Len(p.input)
    THEN IF current(p) = OutOfRange THEN Panicked(p)
         ELSE IF current(p) = "|"
                 \/ (p.pos + 1 < Len(p.input) /\ Slice(p.input, p.pos, p.pos + 2) = closeBrace)
         THEN p
         ELSE skipFunction(Advance(p))
    ELSE p

\* the pipe loop of parseValueRef with its local defaultValue
RECURSIVE parsePipes(_, _)
parsePipes(p, defaultValue) ==
    IF ~p.panic /\ p.pos < Len(p.input)
    THEN LET m == match(skipWhitespace(p), defaultPipe)
             f == match(skipWhitespace(m.p), defaultFunc)
             d == IF f.ok THEN parseDefaultValue(skipWhitespace(f.p))
                          ELSE [value |-> defaultValue, p |-> f.p]
         IN  IF ~m.ok
             THEN [defaultValue |-> defaultValue, p |-> m.p]
             ELSE parsePipes(skipFunction(d.p), d.value)
    ELSE [defaultValue |-> defaultValue, p |-> p]

\* parseValueRef returning the reference without requiring the closing }}
parseValueRefNoClosingCheck(p) ==
    LET start == p.pos
        v == match(skipWhitespace(p), valuePrefix)
        pp == parseValuePath(v.p)
        pl == parsePipes(pp.p, <<>>)
        c == match(skipWhitespace(pl.p), closeBrace)
    IN  IF ~v.ok THEN [ref |-> <<>>, p |-> [v.p EXCEPT !.pos = start + 2]]
        ELSE IF pp.path = <<>> THEN [ref |-> <<>>, p |-> pp.p]
        ELSE [ref |-> << [Path |-> pp.path,
                          DefaultValue |-> pl.defaultValue,
                          SourceFile |-> p.template,
                          LineNumber |-> c.p.lineNum] >>,
              p |-> c.p]

\* ref is <<>> for the nil result and <<r>> for a pointer to r
parseValueRef(p) ==
    LET start == p.pos
        v == match(skipWhitespace(p), valuePrefix)
        pp == parseValuePath(v.p)
        pl == parsePipes(pp.p, <<>>)
        c == match(skipWhitespace(pl.p), closeBrace)
    IN  IF ~v.ok THEN [ref |-> <<>>, p |-> [v.p EXCEPT !.pos = start + 2]]
        ELSE IF pp.path = <<>> THEN [ref |-> <<>>, p |-> pp.p]
        ELSE IF ~c.ok THEN [ref |-> <<>>, p |-> c.p]
        ELSE [ref |-> << [Path |-> pp.path,
                          DefaultValue |-> pl.defaultValue,
                          SourceFile |-> p.template,
                          LineNumber |-> c.p.lineNum] >>,
              p |-> c.p]

\* the parser object of the running ParseFile call
Parser == [input |-> input, pos |-> pos, lineNum |-> lineNum,
           template |-> TemplatePath, panic |-> FALSE, unclosed |-> FALSE]

\* the concatenation of the strings of ss
RECURSIVE Flatten(_)
Flatten(ss) == IF ss = <<>> THEN <<>> ELSE Head(ss) \o Flatten(Tail(ss))

(***************************************************************************)
(* Values trees: map[string]any.  A tree is a function from keys (strings) *)
(* to nodes; a node is a string, an int or a nested map.                   *)
(***************************************************************************)

\* make(map[string]any)
EmptyMap == [k \in {} |-> TRUE]

StringNode(s) == [kind |-> "string", str |-> s]

IntNode(n) == [kind |-> "int", int |-> n]

MapNode(m) == [kind |-> "map", map |-> m]

\* m[k] = v
MapSet(m, k, v) == [x \in (DOMAIN m) \cup {k} |-> IF x = k THEN v ELSE m[x]]

\* the pieces of s between the offsets cuts[k] and cuts[k + 1]
SplitAt(s, cuts) ==
    [k \in 1..(Len(cuts) - 1) |-> SubSeq(s, cuts[k] + 1, cuts[k + 1] - 1)]

\* strings.Split(s, sep) for a one-character sep
Split(s, sep) ==
    SplitAt(s, <<0>> \o SelectSeq([i \in 1..Len(s) |-> i], LAMBDA i : s[i] = sep)
                    \o <<Len(s) + 1>>)

\* the loop of valueExists; parts[i + 1] is parts[i] of the source
RECURSIVE valueExistsLoop(_, _, _)
valueExistsLoop(cur, parts, i) ==
    IF i >= Len(parts) THEN TRUE
    ELSE IF parts[i + 1] \notin DOMAIN cur THEN FALSE
    ELSE IF i = Len(parts) - 1 THEN TRUE
    ELSE IF cur[parts[i + 1]].kind # "map" THEN FALSE
    ELSE valueExistsLoop(cur[parts[i + 1]].map, parts, i + 1)

\* valueExists that reports every path as missing
valueExistsNever(values, path) == FALSE

valueExists(values, path) == valueExistsLoop(values, Split(path, "."), 0)

\* setNestedValue without the conversion of a non-map intermediate value:
\* the walk stays in the enclosing map
RECURSIVE setNestedValueLoopNoConvert(_, _, _, _)
setNestedValueLoopNoConvert(cur, parts, i, value) ==
    IF i < Len(parts) - 1
    THEN LET part == parts[i + 1]
             created == IF part \notin DOMAIN cur
                        THEN MapSet(cur, part, MapNode(EmptyMap))
                        ELSE cur
         IN  IF created[part].kind = "map"
             THEN MapSet(created, part,
                         MapNode(setNestedValueLoopNoConvert(created[part].map, parts, i + 1, value)))
             ELSE setNestedValueLoopNoConvert(created, parts, i + 1, value)
    ELSE MapSet(cur, parts[Len(parts)], StringNode(value))

\* the loop of setNestedValue followed by its final assignment; the result
\* is the map current (cur) after the writes made through it
RECURSIVE setNestedValueLoop(_, _, _, _)
setNestedValueLoop(cur, parts, i, value) ==
    IF i < Len(parts) - 1
    THEN LET part == parts[i + 1]
             created == IF part \notin DOMAIN cur
                        THEN MapSet(cur, part, MapNode(EmptyMap))
                        ELSE cur
             nested == IF created[part].kind = "map" THEN created[part].map ELSE EmptyMap
         IN  MapSet(created, part, MapNode(setNestedValueLoop(nested, parts, i + 1, value)))
    ELSE MapSet(cur, parts[Len(parts)], StringNode(value))

\* setNestedValue without strings.Split: the whole path is one key
setNestedValueUnsplit(values, path, value) ==
    setNestedValueLoop(values, <<path>>, 0, value)

setNestedValue(values, path, value) ==
    setNestedValueLoop(values, Split(path, "."), 0, value)

(***************************************************************************)
(* Text helpers of the Go standard library used by the injector            *)
(***************************************************************************)

\* strings.Contains / bytes.Contains
Contains(s, sub) ==
    \/ sub = <<>>
    \/ \E i \in 0..(Len(s) - Len(sub)) :
           s[i + 1] = sub[1] /\ SubSeq(s, i + 1, i + Len(sub)) = sub

\* strings.HasPrefix
HasPrefix(s, prefix) ==
    Len(s) >= Len(prefix) /\ SubSeq(s, 1, Len(prefix)) = prefix

\* unicode.IsSpace on the bytes of the model's texts
IsSpace(ch) == ch \in {" ", "\t", "\n", "\r"}

\* strings.TrimLeft(s, " ")
RECURSIVE TrimLeft(_, _)
TrimLeft(s, cutset) ==
    IF s # <<>> /\ Head(s) \in cutset THEN TrimLeft(Tail(s), cutset) ELSE s

RECURSIVE TrimRightSpace(_)
TrimRightSpace(s) ==
    IF s # <<>> /\ IsSpace(s[Len(s)]) THEN TrimRightSpace(SubSeq(s, 1, Len(s) - 1)) ELSE s

\* strings.TrimSpace
TrimSpace(s) == TrimRightSpace(TrimLeft(s, {" ", "\t", "\n", "\r"}))

\* strings.Join
RECURSIVE Join(_, _)
Join(elems, sep) ==
    IF elems = <<>> THEN <<>>
    ELSE IF Len(elems) = 1 THEN elems[1]
    ELSE elems[1] \o sep \o Join(Tail(elems), sep)

\* strings.Repeat(" ", count); a negative count panics
Repeat(s, count) ==
    IF count < 0 THEN <<OutOfRange>> ELSE Flatten([i \in 1..count |-> s])

\* len(line) - len(strings.TrimLeft(line, " ")): the number of leading spaces
IndentOf(line) == Len(line) - Len(TrimLeft(line, {" "}))

(***************************************************************************)
(* sigs.k8s.io/yaml on the values files of the model: block mappings with  *)
(* plain keys, nested by indentation, holding strings, numbers, null or    *)
(* nested mappings                                                         *)
(***************************************************************************)

NullNode == [kind |-> "null"]

\* the bytes of keys in ascending order
ByteOrder == <<"-", ".", "0", "1", "2", "3", "4", "5", "6", "7", "8", "9", "A", "B", "C", "D", "E", "F", "G", "H", "I", "J", "K", "L", "M", "N", "O", "P", "Q", "R", "S", "T", "U", "V", "W", "X", "Y", "Z", "_", "a", "b", "c", "d", "e", "f", "g", "h", "i", "j", "k", "l", "m", "n", "o", "p", "q", "r", "s", "t", "u", "v", "w", "x", "y", "z">>

Ord(ch) == CHOOSE n \in DOMAIN ByteOrder : ByteOrder[n] = ch

\* s sorts before t
KeyLess(s, t) ==
    \E k \in 1..Len(t) :
        /\ k - 1 <= Len(s)
        /\ SubSeq(s, 1, k - 1) = SubSeq(t, 1, k - 1)
        /\ (k > Len(s) \/ Ord(s[k]) < Ord(t[k]))

\* the keys of m in the order json.Marshal writes them
SortedKeys(m) ==
    [n \in 1..Cardinality(DOMAIN m) |->
        CHOOSE k \in DOMAIN m : Cardinality({ j \in DOMAIN m : KeyLess(j, k) }) = n - 1]

\* strconv.Itoa for the non-negative numbers of the model
RECURSIVE Itoa(_)
Itoa(n) ==
    LET digit == <<"0", "1", "2", "3", "4", "5", "6", "7", "8", "9">>[(n % 10) + 1]
    IN  IF n < 10 THEN <<digit>> ELSE Itoa(n \div 10) \o <<digit>>

\* strconv.Atoi on a string of digits
RECURSIVE Atoi(_)
Atoi(s) ==
    IF s = <<>> THEN 0
    ELSE Atoi(SubSeq(s, 1, Len(s) - 1)) * 10
         + (CHOOSE d \in 0..9 : Itoa(d) = <<s[Len(s)]>>)

AllDigits(s) == s # <<>> /\ \A k \in 1..Len(s) : isDigit(s[k])

\* the text of a scalar node: the empty string and strings that read as a
\* number or as null are quoted
MarshalScalar(node) ==
    IF node.kind = "int" THEN Itoa(node.int)
    ELSE IF node.kind = "null" THEN <<"n", "u", "l", "l">>
    ELSE IF node.str = <<>> \/ AllDigits(node.str) \/ node.str = <<"n", "u", "l", "l">>
    THEN <<"\"">> \o node.str \o <<"\"">>
    ELSE node.str

\* the text of the entries of m for the keys of the sequence keys, nested
\* mappings indented by two further spaces
RECURSIVE MarshalEntries(_, _, _)
MarshalEntries(m, keys, indent) ==
    IF keys = <<>> THEN <<>>
    ELSE LET k == keys[1]
         IN  (IF m[k].kind = "map" /\ m[k].map # EmptyMap
              THEN indent \o k \o <<":", "\n">>
                   \o MarshalEntries(m[k].map, SortedKeys(m[k].map), indent \o <<" ", " ">>)
              ELSE indent \o k \o <<":", " ">>
                   \o (IF m[k].kind = "map" THEN <<"{", "}">> ELSE MarshalScalar(m[k]))
                   \o <<"\n">>)
             \o MarshalEntries(m, Tail(keys), indent)

\* yaml.Marshal(file.Values)
yamlMarshal(values) ==
    IF values = EmptyMap THEN <<"{", "}", "\n">>
    ELSE MarshalEntries(values, SortedKeys(values), <<>>)

\* the lines of a values text that hold an entry: not blank, not a comment
YamlLines(text) ==
    SelectSeq(Split(text, "\n"),
              LAMBDA l : TrimSpace(l) # <<>> /\ ~HasPrefix(TrimSpace(l), <<"#">>))

\* the offsets of the key separators of a line
Separators(l) == { i \in 1..Len(l) : l[i] = ":" /\ (i = Len(l) \/ l[i + 1] = " ") }

KeyOf(l) == TrimSpace(SubSeq(l, 1, (CHOOSE i \in Separators(l) : TRUE) - 1))

RestOf(l) == TrimSpace(SubSeq(l, (CHOOSE i \in Separators(l) : TRUE) + 1, Len(l)))

\* the node of a plain or double-quoted scalar
yamlScalar(rest) ==
    IF Len(rest) >= 2 /\ rest[1] = "\"" /\ rest[Len(rest)] = "\""
    THEN StringNode(SubSeq(rest, 2, Len(rest) - 1))
    ELSE IF AllDigits(rest) THEN IntNode(Atoi(rest))
    ELSE IF rest \in { <<"n", "u", "l", "l">>, <<"~">> } THEN NullNode
    ELSE IF rest = <<"{", "}">> THEN MapNode(EmptyMap)
    ELSE StringNode(rest)

\* the lines are not a block mapping: a line without exactly one key
\* separator, a line indented under a scalar entry, or a line that returns to
\* an indentation no enclosing mapping has
yamlSyntaxError(lines) ==
    \/ \E i \in DOMAIN lines :
          Cardinality(Separators(lines[i])) # 1 \/ KeyOf(lines[i]) = <<>>
    \/ \E i \in 2..Len(lines) :
          \/ IndentOf(lines[i]) > IndentOf(lines[i - 1]) /\ RestOf(lines[i - 1]) # <<>>
          \/ /\ IndentOf(lines[i]) < IndentOf(lines[i - 1])
             /\ ~\E j \in 1..(i - 1) :
                    /\ IndentOf(lines[j]) = IndentOf(lines[i])
                    /\ \A k \in j..i : IndentOf(lines[k]) >= IndentOf(lines[i])

\* the mapping written on lines lo..hi, whose keys are indented as line lo
RECURSIVE yamlBlock(_, _, _)
yamlBlock(lines, lo, hi) ==
    LET heads == { i \in lo..hi : IndentOf(lines[i]) = IndentOf(lines[lo]) }
        last(i) == IF \E j \in heads : j > i
                   THEN (CHOOSE j \in heads : j > i /\ \A k \in heads : k > i => j <= k) - 1
                   ELSE hi
        node(i) == IF RestOf(lines[i]) # <<>> THEN yamlScalar(RestOf(lines[i]))
                   ELSE IF last(i) > i THEN MapNode(yamlBlock(lines, i + 1, last(i)))
                   ELSE NullNode
    IN  [k \in { KeyOf(lines[i]) : i \in heads } |->
            node(CHOOSE i \in heads : KeyOf(lines[i]) = k
                                      /\ \A j \in heads : KeyOf(lines[j]) = k => j <= i)]

\* yaml.Unmarshal(data, &file.Values): the keys of the document are stored
\* into values; a document without entries leaves values as it is
yamlUnmarshal(data, values) ==
    LET lines == YamlLines(data)
    IN  IF lines = <<>> THEN [err |-> FALSE, Values |-> values]
        ELSE IF yamlSyntaxError(lines) THEN [err |-> TRUE, Values |-> values]
        ELSE [err |-> FALSE, Values |-> yamlBlock(lines, 1, Len(lines)) @@ values]

(***************************************************************************)
(* The Deployment strategy injector                                        *)
(***************************************************************************)

KindDeployment == <<"k", "i", "n", "d", ":", " ", "D", "e", "p", "l", "o", "y", "m", "e", "n", "t">>

KeyKind == <<"k", "i", "n", "d">>

KeyDeployment == <<"d", "e", "p", "l", "o", "y", "m", "e", "n", "t">>

KeyStrategy == <<"s", "t", "r", "a", "t", "e", "g", "y">>

KeyType == <<"t", "y", "p", "e">>

KeyRollingUpdate == <<"r", "o", "l", "l", "i", "n", "g", "U", "p", "d", "a", "t", "e">>

KeyMaxSurge == <<"m", "a", "x", "S", "u", "r", "g", "e">>

KeyMaxUnavailable == <<"m", "a", "x", "U", "n", "a", "v", "a", "i", "l", "a", "b", "l", "e">>

defaultDeploymentStrategy ==
    (KeyType :> StringNode(<<"R", "o", "l", "l", "i", "n", "g", "U", "p", "d", "a", "t", "e">>))
    @@ (KeyRollingUpdate :> MapNode((KeyMaxSurge :> IntNode(1)) @@ (KeyMaxUnavailable :> IntNode(0))))

\* the loop of removeHelmTemplates: the lines without template directives
RECURSIVE cleanLines(_)
cleanLines(lines) ==
    IF lines = <<>> THEN <<>>
    ELSE IF Contains(Head(lines), openBrace) \/ Contains(Head(lines), closeBrace)
    THEN cleanLines(Tail(lines))
    ELSE <<Head(lines)>> \o cleanLines(Tail(lines))

removeHelmTemplates(content) == Join(cleanLines(Split(content, "\n")), <<"\n">>)

\* yaml.Unmarshal(cleanContent, &manifest) of sigs.k8s.io/yaml, on the
\* manifests of the model: a line holding two key separators is a syntax
\* error; manifest.Kind is the value of the first top-level kind: line
yamlUnmarshalKind(content) ==
    LET lines == Split(content, "\n")
        sepAt(l, i) == l[i] = ":" /\ (i = Len(l) \/ l[i + 1] = " ")
        bad(l) == Cardinality({ i \in 1..Len(l) : sepAt(l, i) }) >= 2
        kinds == { i \in 1..Len(lines) : HasPrefix(lines[i], KeyKind \o <<":">>) }
        first == CHOOSE i \in kinds : \A j \in kinds : i <= j
    IN  IF \E i \in 1..Len(lines) : bad(lines[i]) THEN [err |-> TRUE, Kind |-> <<>>]
        ELSE IF kinds = {} THEN [err |-> FALSE, Kind |-> <<>>]
        ELSE [err |-> FALSE,
              Kind |-> TrimSpace(SubSeq(lines[first], Len(KeyKind) + 2, Len(lines[first])))]

SpecLine == <<"s", "p", "e", "c", ":">>

TemplateKey == <<"t", "e", "m", "p", "l", "a", "t", "e", ":">>

StrategyKey == <<"s", "t", "r", "a", "t", "e", "g", "y", ":">>

\* the five lines of strategySection
strategySection(baseIndent, indentWidth) ==
    << baseIndent \o <<"s", "t", "r", "a", "t", "e", "g", "y", ":">>,
       baseIndent \o Repeat(<<" ">>, indentWidth) \o <<"t", "y", "p", "e", ":", " ", "{", "{", " ", ".", "V", "a", "l", "u", "e", "s", ".", "d", "e", "p", "l", "o", "y", "m", "e", "n", "t", ".", "s", "t", "r", "a", "t", "e", "g", "y", ".", "t", "y", "p", "e", " ", "}", "}">>,
       baseIndent \o Repeat(<<" ">>, indentWidth) \o <<"r", "o", "l", "l", "i", "n", "g", "U", "p", "d", "a", "t", "e", ":">>,
       baseIndent \o Repeat(<<" ">>, indentWidth * 2) \o <<"m", "a", "x", "S", "u", "r", "g", "e", ":", " ", "{", "{", " ", ".", "V", "a", "l", "u", "e", "s", ".", "d", "e", "p", "l", "o", "y", "m", "e", "n", "t", ".", "s", "t", "r", "a", "t", "e", "g", "y", ".", "r", "o", "l", "l", "i", "n", "g", "U", "p", "d", "a", "t", "e", ".", "m", "a", "x", "S", "u", "r", "g", "e", " ", "}", "}">>,
       baseIndent \o Repeat(<<" ">>, indentWidth * 2) \o <<"m", "a", "x", "U", "n", "a", "v", "a", "i", "l", "a", "b", "l", "e", ":", " ", "{", "{", " ", ".", "V", "a", "l", "u", "e", "s", ".", "d", "e", "p", "l", "o", "y", "m", "e", "n", "t", ".", "s", "t", "r", "a", "t", "e", "g", "y", ".", "r", "o", "l", "l", "i", "n", "g", "U", "p", "d", "a", "t", "e", ".", "m", "a", "x", "U", "n", "a", "v", "a", "i", "l", "a", "b", "l", "e", " ", "}", "}">> >>

\* line[:len(line)-len(trimmed)]
LeadingPart(line) == Slice(line, 0, Len(line) - Len(TrimSpace(line)))

\* the first loop of updateDeploymentTemplate; st holds its six locals and
\* i is the 0-based index of the line
RECURSIVE scanSpec(_, _, _)
scanSpec(lines, i, st) ==
    IF i >= Len(lines) THEN st
    ELSE
    LET line == lines[i + 1]
        trimmed == TrimSpace(line)
        \* lines 408-420
        afterStrategy ==
            IF st.inSpec /\ ~st.inTemplate /\ Len(line) > 0
               /\ Len(LeadingPart(line)) <= Len(st.specIndent)
            THEN [st EXCEPT !.inSpec = FALSE] ELSE st
        \* lines 423-431
        afterDepth ==
            IF afterStrategy.inTemplate
               /\ Len(line) - Len(TrimLeft(line, {" "})) <= Len(afterStrategy.specIndent)
            THEN [afterStrategy EXCEPT
                     !.templateDepth = @ - 1,
                     !.inTemplate = IF afterStrategy.templateDepth - 1 = 0 THEN FALSE ELSE @]
            ELSE afterStrategy
    IN  IF Contains(line, TemplateKey)
        THEN scanSpec(lines, i + 1,
                      [st EXCEPT !.templateDepth = @ + 1,
                                 !.inTemplate = IF st.templateDepth + 1 = 1 THEN TRUE ELSE @])
        ELSE IF trimmed = SpecLine
        THEN scanSpec(lines, i + 1,
                      IF st.templateDepth = 0
                      THEN [st EXCEPT !.specIndex = i,
                                      !.specIndent = LeadingPart(line),
                                      !.inSpec = TRUE]
                      ELSE st)
        ELSE IF st.inSpec /\ ~st.inTemplate /\ HasPrefix(trimmed, StrategyKey)
        THEN [st EXCEPT !.strategyExists = TRUE]
        ELSE scanSpec(lines, i + 1, afterDepth)

\* the second loop of updateDeploymentTemplate: baseIndent and indentWidth
RECURSIVE findIndent(_, _, _)
findIndent(lines, i, specIndent) ==
    IF i >= Len(lines) THEN [baseIndent |-> <<>>, indentWidth |-> 2]
    ELSE LET line == lines[i + 1]
             trimmed == TrimSpace(line)
         IN  IF trimmed = <<>> \/ HasPrefix(trimmed, openBrace)
             THEN findIndent(lines, i + 1, specIndent)
             ELSE IF Len(line) > Len(trimmed)
             THEN [baseIndent |-> LeadingPart(line),
                   indentWidth |-> Len(LeadingPart(line)) - Len(specIndent)]
             ELSE findIndent(lines, i + 1, specIndent)

\* updateDeploymentTemplate with the rest of the text taken from
\* lines[specIndex+2:], which loses the line that followed spec:
updateDeploymentTemplateSkipLine(content) ==
    LET lines == Split(content, "\n")
        st == scanSpec(lines, 0, [specIndex |-> -1, specIndent |-> <<>>,
                                  strategyExists |-> FALSE, inSpec |-> FALSE,
                                  inTemplate |-> FALSE, templateDepth |-> 0])
        found == findIndent(lines, st.specIndex + 1, st.specIndent)
        indentWidth == found.indentWidth
        baseIndent == IF found.baseIndent = <<>>
                      THEN st.specIndent \o Repeat(<<" ">>, indentWidth)
                      ELSE found.baseIndent
        result == SubSeq(lines, 1, st.specIndex + 1)
                  \o strategySection(baseIndent, indentWidth)
                  \o SubSeq(lines, st.specIndex + 3, Len(lines))
    IN  IF st.strategyExists \/ st.specIndex = -1 THEN content
        ELSE IF indentWidth < 0 THEN <<OutOfRange>>
        ELSE Join(result, <<"\n">>)

\* the result is the new content, or <<OutOfRange>> when strings.Repeat panics
updateDeploymentTemplate(content) ==
    LET lines == Split(content, "\n")
        st == scanSpec(lines, 0, [specIndex |-> -1, specIndent |-> <<>>,
                                  strategyExists |-> FALSE, inSpec |-> FALSE,
                                  inTemplate |-> FALSE, templateDepth |-> 0])
        found == findIndent(lines, st.specIndex + 1, st.specIndent)
        indentWidth == found.indentWidth
        baseIndent == IF found.baseIndent = <<>>
                      THEN st.specIndent \o Repeat(<<" ">>, indentWidth)
                      ELSE found.baseIndent
        result == SubSeq(lines, 1, st.specIndex + 1)
                  \o strategySection(baseIndent, indentWidth)
                  \o SubSeq(lines, st.specIndex + 2, Len(lines))
    IN  IF st.strategyExists \/ st.specIndex = -1 THEN content
        ELSE IF indentWidth < 0 THEN <<OutOfRange>>
        ELSE Join(result, <<"\n">>)

\* the loop of injectDeploymentStrategy with a deployment map that is always
\* made anew: the existing deployment section is not looked at
RECURSIVE injectValuesFilesNewDeployment(_, _, _, _, _)
injectValuesFilesNewDeployment(files, fs, templatePath, content, i) ==
    IF i > Len(files) THEN [files |-> files, fs |-> fs, err |-> "", panic |-> FALSE]
    ELSE
    LET values == files[i].Values
        withStrategy == KeyStrategy :> MapNode(defaultDeploymentStrategy)
        added == [files EXCEPT ![i] = [Values |-> MapSet(values, KeyDeployment, MapNode(withStrategy)),
                                       Changed |-> TRUE]]
        updatedContent == updateDeploymentTemplate(content)
    IN  IF updatedContent = <<OutOfRange>>
        THEN [files |-> added, fs |-> fs, err |-> "", panic |-> TRUE]
        ELSE IF ~fs[templatePath].writable
        THEN [files |-> added, fs |-> fs, err |-> "updating template", panic |-> FALSE]
        ELSE injectValuesFilesNewDeployment(added,
                                            [fs EXCEPT ![templatePath].content = updatedContent],
                                            templatePath, content, i + 1)

\* the loop of injectDeploymentStrategy over c.ValuesFiles (lines 284-347);
\* fs is the file system, content the bytes read from templatePath
RECURSIVE injectValuesFiles(_, _, _, _, _)
injectValuesFiles(files, fs, templatePath, content, i) ==
    IF i > Len(files) THEN [files |-> files, fs |-> fs, err |-> "", panic |-> FALSE]
    ELSE
    LET values == files[i].Values
        isMap == KeyDeployment \in DOMAIN values /\ values[KeyDeployment].kind = "map"
        deployment == IF isMap THEN values[KeyDeployment].map ELSE EmptyMap
        withStrategy == MapSet(deployment, KeyStrategy, MapNode(defaultDeploymentStrategy))
        added == [files EXCEPT ![i] = [Values |-> MapSet(values, KeyDeployment, MapNode(withStrategy)),
                                       Changed |-> TRUE]]
        kept == [files EXCEPT ![i].Values = MapSet(values, KeyDeployment, MapNode(deployment))]
        updatedContent == updateDeploymentTemplate(content)
    IN  IF KeyStrategy \notin DOMAIN deployment
        THEN IF updatedContent = <<OutOfRange>>
             THEN [files |-> added, fs |-> fs, err |-> "", panic |-> TRUE]
             ELSE IF ~fs[templatePath].writable
             THEN [files |-> added, fs |-> fs, err |-> "updating template", panic |-> FALSE]
             ELSE injectValuesFiles(added,
                                    [fs EXCEPT ![templatePath].content = updatedContent],
                                    templatePath, content, i + 1)
        ELSE injectValuesFiles(kept, fs, templatePath, content, i + 1)

injectDeploymentStrategy(files, fs, templatePath) ==
    LET content == fs[templatePath].content
        manifest == yamlUnmarshalKind(removeHelmTemplates(content))
        unchanged == [files |-> files, fs |-> fs, err |-> "", panic |-> FALSE]
    IN  IF ~fs[templatePath].readable THEN [unchanged EXCEPT !.err = "reading template"]
        ELSE IF ~Contains(content, KindDeployment) THEN unchanged
        ELSE IF manifest.err THEN [unchanged EXCEPT !.err = "parsing manifest"]
        ELSE IF manifest.Kind # <<"D", "e", "p", "l", "o", "y", "m", "e", "n", "t">> THEN unchanged
        ELSE injectValuesFiles(files, fs, templatePath, content, 1)

\* the first pass of ProcessReferences ended by the first error of the
\* injector
RECURSIVE injectTemplatesAbort(_, _, _, _)
injectTemplatesAbort(files, fs, templates, t) ==
    IF t > Len(templates) THEN [files |-> files, fs |-> fs, panic |-> FALSE]
    ELSE LET r == injectDeploymentStrategy(files, fs, templates[t])
         IN  IF r.panic THEN [files |-> r.files, fs |-> r.fs, panic |-> TRUE]
             ELSE IF r.err # "" THEN [files |-> r.files, fs |-> r.fs, panic |-> FALSE]
             ELSE injectTemplatesAbort(r.files, r.fs, templates, t + 1)

\* the first pass of ProcessReferences: errors are only printed
RECURSIVE injectTemplates(_, _, _, _)
injectTemplates(files, fs, templates, t) ==
    IF t > Len(templates) THEN [files |-> files, fs |-> fs, panic |-> FALSE]
    ELSE LET r == injectDeploymentStrategy(files, fs, templates[t])
         IN  IF r.panic THEN [files |-> r.files, fs |-> r.fs, panic |-> TRUE]
             ELSE injectTemplates(r.files, r.fs, templates, t + 1)

(***************************************************************************)
(* Chart.ProcessReferences, second and third pass                          *)
(***************************************************************************)

\* the second pass without its break: the last non-empty default wins
RECURSIVE findDefaultNoBreak(_, _, _)
findDefaultNoBreak(references, ref, j) ==
    IF j > Len(references) THEN ref
    ELSE IF ref.Path = references[j].Path /\ references[j].DefaultValue # <<>>
    THEN findDefaultNoBreak(references,
                            [ref EXCEPT !.DefaultValue = references[j].DefaultValue], j + 1)
    ELSE findDefaultNoBreak(references, ref, j + 1)

\* the inner loop of the second pass: the first non-empty default of the
\* references with ref's path, else ref's own default
RECURSIVE findDefault(_, _, _)
findDefault(references, ref, j) ==
    IF j > Len(references) THEN ref
    ELSE IF ref.Path = references[j].Path /\ references[j].DefaultValue # <<>>
    THEN [ref EXCEPT !.DefaultValue = references[j].DefaultValue]
    ELSE findDefault(references, ref, j + 1)

\* the second pass: templateRefs, with processedRefs the paths seen so far
RECURSIVE collectReferences(_, _, _, _)
collectReferences(references, i, processedRefs, templateRefs) ==
    IF i > Len(references) THEN templateRefs
    ELSE IF references[i].Path \in processedRefs
    THEN collectReferences(references, i + 1, processedRefs, templateRefs)
    ELSE collectReferences(references, i + 1,
                           processedRefs \cup {references[i].Path},
                           Append(templateRefs, findDefault(references, references[i], 1)))

\* the third pass writing whenever the path is missing or the reference
\* has a default
RECURSIVE reconcileFileOrDefault(_, _, _)
reconcileFileOrDefault(file, templateRefs, k) ==
    IF k > Len(templateRefs) THEN file
    ELSE IF ~valueExists(file.Values, templateRefs[k].Path)
            \/ templateRefs[k].DefaultValue # <<>>
    THEN reconcileFileOrDefault([file EXCEPT
                                    !.Values = setNestedValue(@, templateRefs[k].Path,
                                                              templateRefs[k].DefaultValue),
                                    !.Changed = TRUE],
                                templateRefs, k + 1)
    ELSE reconcileFileOrDefault(file, templateRefs, k + 1)

\* the third pass on one values file
RECURSIVE reconcileFile(_, _, _)
reconcileFile(file, templateRefs, k) ==
    IF k > Len(templateRefs) THEN file
    ELSE IF ~valueExists(file.Values, templateRefs[k].Path)
    THEN reconcileFile([file EXCEPT
                           !.Values = setNestedValue(@, templateRefs[k].Path,
                                                     templateRefs[k].DefaultValue),
                           !.Changed = TRUE],
                       templateRefs, k + 1)
    ELSE reconcileFile(file, templateRefs, k + 1)

\* the third pass on every values file
reconcileFiles(files, templateRefs) ==
    [i \in DOMAIN files |-> reconcileFile(files[i], templateRefs, 1)]

(***************************************************************************)
(* Chart.UpdateValueFiles                                                  *)
(***************************************************************************)

\* ValueFile.Path of the i-th values file
ValuesPath(i) ==
    <<"values.yaml", "values-2.yaml", "values-3.yaml", "values-4.yaml">>[i]

\* os.WriteFile(path, data, 0644) on the file system fs
WriteFile(fs, path, data) ==
    [p \in DOMAIN fs \cup {path} |->
        IF p = path THEN [content |-> data, readable |-> TRUE, writable |-> TRUE]
        ELSE fs[p]]

\* the loop of UpdateValueFiles without the test of file.Changed
RECURSIVE updateValueFilesLoopAll(_, _, _)
updateValueFilesLoopAll(files, fs, i) ==
    IF i > Len(files) THEN [fs |-> fs, err |-> <<>>]
    ELSE IF ValuesPath(i) \in DOMAIN fs /\ ~fs[ValuesPath(i)].writable
    THEN [fs |-> fs, err |-> <<"writing values file">>]
    ELSE updateValueFilesLoopAll(files,
                                 WriteFile(fs, ValuesPath(i), yamlMarshal(files[i].Values)),
                                 i + 1)

\* the loop of UpdateValueFiles; the result is the file system and the error
RECURSIVE updateValueFilesLoop(_, _, _)
updateValueFilesLoop(files, fs, i) ==
    IF i > Len(files) THEN [fs |-> fs, err |-> <<>>]
    ELSE IF ~files[i].Changed THEN updateValueFilesLoop(files, fs, i + 1)
    ELSE IF ValuesPath(i) \in DOMAIN fs /\ ~fs[ValuesPath(i)].writable
    THEN [fs |-> fs, err |-> <<"writing values file">>]
    ELSE updateValueFilesLoop(files, WriteFile(fs, ValuesPath(i), yamlMarshal(files[i].Values)),
                              i + 1)

updateValueFiles(files, fs) == updateValueFilesLoop(files, fs, 1)

(***************************************************************************)
(* Inputs of ParseFile: concatenations of at most MaxItems items, an item  *)
(* being a brace attempt (well formed or not) or a piece of other text.    *)
(***************************************************************************)

\* the largest number of items concatenated into one input
MaxItems == 2

\* what stands between the braces: well-formed and malformed paths
Bodies ==
    { <<".", "V", "a", "l", "u", "e", "s", ".", "a">>,
      <<".", "V", "a", "l", "u", "e", "s", ".", "a", ".", "b">>,
      <<".", "V", "a", "l", "u", "e", "s", ".", "a", "-", "b">>,
      <<".", "V", "a", "l", "u", "e", "s", ".">>,
      <<".", "V", "a", "l", "u", "e", "s", ".", ".", "a">>,
      <<".", "V", "a", "l", "u", "e", "s", ".", "a", ".", ".", "b">>,
      <<".", "V", "a", "l", "u", "e", "s", ".", "a", ".">>,
      <<".", "V", "a", "l", "u", "e", "s", ".", "a", "$">>,
      <<".", "C", "h", "a", "r", "t", ".", "a">> }

\* the whitespace after the opening and before the closing delimiter
WsPairs ==
    { <<<<>>, <<>>>>,
      <<<<" ">>, <<" ">>>>,
      <<<<"\n">>, <<" ">>>>,
      <<<<" ">>, <<"\n">>>> }

\* pipe segments following the path .Values.a
Pipes ==
    { <<" ", "|", " ", "d", "e", "f", "a", "u", "l", "t", " ", "\"", "x", "\"", " ">>,
      <<"|", "d", "e", "f", "a", "u", "l", "t", " ", "'", "y", "'">>,
      <<" ", "|", " ", "d", "e", "f", "a", "u", "l", "t", " ", "8", "0", " ">>,
      <<" ", "|", " ", "d", "e", "f", "a", "u", "l", "t", " ", "\"", "a", "\\", "\"", "b", "\"", " ">>,
      <<" ", "|", " ", "d", "e", "f", "a", "u", "l", "t", " ", "\"", "a", "\n", "b", "\"", " ">>,
      <<" ", "|", " ", "q", "u", "o", "t", "e", " ">>,
      <<" ", "|", " ", "d", "e", "f", "a", "u", "l", "t", " ", "\"", "x", "\"", " ", "|", " ", "q", "u", "o", "t", "e", " ">>,
      <<" ", "|", " ", "d", "e", "f", "a", "u", "l", "t", " ", "\"", "x", "\"", " ", "|", " ", "d", "e", "f", "a", "u", "l", "t", " ", "\"", "y", "\"", " ">>,
      <<" ", "|", " ", "q", "u", "o", "t", "e", " ", "|", " ", "d", "e", "f", "a", "u", "l", "t", " ", "\"", "x", "\"", " ">>,
      <<" ", "|", " ", "d", "e", "f", "a", "u", "l", "t", " ", ".", "x", " ">>,
      <<" ", "|", " ", "d", "e", "f", "a", "u", "l", "t", " ", "\"", "x", " ">>,
      <<" ", "|", "\n", " ", "q", "u", "o", "t", "e", " ">>,
      <<" ", "|", " ", "q", "u", "o", "t", "e", " ", "|", " ", "d", "e", "f", "a", "u", "l", "t", " ", "'", "x", " ">> }

\* text that is no complete brace attempt
Junk ==
    { <<"\n">>,
      <<"x">>,
      <<"{", "{">>,
      <<"{", "{", "x">>,
      <<"}", "}">>,
      <<"{", "{", " ", ".", "V", "a", "l", "u", "e", "s", ".", "a", " ">>,
      <<"{", "{", "\n", "\n", "\n", "x">>,
      <<"{", "{", "a", "\n">> }

Items ==
    { openBrace \o <<" ">> \o b \o <<" ">> \o closeBrace : b \in Bodies }
    \cup { openBrace \o w[1] \o valuePrefix \o <<"a">> \o w[2] \o closeBrace : w \in WsPairs }
    \cup { openBrace \o <<" ">> \o valuePrefix \o <<"a">> \o q \o closeBrace : q \in Pipes }
    \cup Junk

(***************************************************************************)
(* The chart: values trees, references and templates handed to             *)
(* ProcessReferences                                                       *)
(***************************************************************************)

\* the largest number of references of the chart
MaxRefs == 2

\* the largest number of values files of the chart
MaxFiles == 2

PathA == <<"a">>

PathAB == <<"a", ".", "b">>

PathStrategyType == <<"d", "e", "p", "l", "o", "y", "m", "e", "n", "t", ".", "s", "t", "r", "a", "t", "e", "g", "y", ".", "t", "y", "p", "e">>

MkRef(path, default) ==
    [Path |-> path, DefaultValue |-> default, SourceFile |-> TemplatePath, LineNumber |-> 1]

\* the references a chart draws from
RefPool ==
    { MkRef(PathA, <<>>), MkRef(PathA, <<"x">>), MkRef(PathA, <<"y">>),
      MkRef(PathAB, <<"x">>), MkRef(PathStrategyType, <<"x">>) }

\* the values trees a loaded values file may hold
TreePool ==
    { EmptyMap,
      (<<"a">> :> StringNode(<<>>)) @@ (KeyDeployment :> StringNode(<<"x">>)),
      (<<"a">> :> MapNode(<<"b">> :> IntNode(0)))
         @@ (KeyDeployment :> MapNode(KeyStrategy :> MapNode(KeyType :> StringNode(<<"R", "e", "c", "r", "e", "a", "t", "e">>)))) }

ServiceManifest == <<"k", "i", "n", "d", ":", " ", "S", "e", "r", "v", "i", "c", "e", "\n", "s", "p", "e", "c", ":", "\n", " ", " ", "p", "o", "r", "t", "s", ":", " ", "x">>

DeploymentManifest == <<"k", "i", "n", "d", ":", " ", "D", "e", "p", "l", "o", "y", "m", "e", "n", "t", "\n", "s", "p", "e", "c", ":", "\n", " ", " ", "r", "e", "p", "l", "i", "c", "a", "s", ":", " ", "1">>

TemplateFile == "templates/t.yaml"

\* the templates directory: no template, or one template file
TemplatePool ==
    { [Templates |-> <<>>,
       disk |-> (TemplateFile :> [content |-> <<>>, readable |-> FALSE, writable |-> FALSE])],
      [Templates |-> <<TemplateFile>>,
       disk |-> (TemplateFile :> [content |-> ServiceManifest, readable |-> TRUE, writable |-> TRUE])],
      [Templates |-> <<TemplateFile>>,
       disk |-> (TemplateFile :> [content |-> DeploymentManifest, readable |-> TRUE, writable |-> TRUE])],
      [Templates |-> <<TemplateFile>>,
       disk |-> (TemplateFile :> [content |-> DeploymentManifest, readable |-> TRUE, writable |-> FALSE])],
      [Templates |-> <<TemplateFile>>,
       disk |-> (TemplateFile :> [content |-> DeploymentManifest, readable |-> FALSE, writable |-> TRUE])] }

(***************************************************************************)
(* config.go: the configuration of a Chart and its functional options      *)
(***************************************************************************)

defaultConfig ==
    [ValuesFileName |-> <<"values.yaml">>, TemplatesDir |-> "templates", Verbose |-> FALSE]

\* the options, as the values their constructors are called with
WithValuesFileNames(names) == [option |-> "WithValuesFileNames", names |-> names]

WithTemplatesDir(dir) == [option |-> "WithTemplatesDir", dir |-> dir]

WithVerbose(verbose) == [option |-> "WithVerbose", verbose |-> verbose]

\* option(c): the config after the option o
applyOption(c, o) ==
    CASE o.option = "WithValuesFileNames" -> [c EXCEPT !.ValuesFileName = @ \o o.names]
      [] o.option = "WithTemplatesDir" -> [c EXCEPT !.TemplatesDir = o.dir]
      [] o.option = "WithVerbose" -> [c EXCEPT !.Verbose = o.verbose]

\* config.apply
RECURSIVE apply(_, _, _)
apply(c, options, i) ==
    IF i > Len(options) THEN c ELSE apply(applyOption(c, options[i]), options, i + 1)

newConfig(options) == apply(defaultConfig, options, 1)

\* the variables of the options and of the concurrent runs, where they
\* play no part
OptionsIdle ==
    /\ config = defaultConfig
    /\ opts = <<>>
    /\ runs = <<>>

ParserIdle ==
    /\ input = <<>>
    /\ pos = 0
    /\ lineNum = 1
    /\ refs = <<>>
    /\ attempts = <<>>
    /\ pc = "idle"

ChartIdle ==
    /\ ValuesFiles = <<>>
    /\ References = <<>>
    /\ Templates = <<>>
    /\ disk = <<>>
    /\ chartPc = "idle"
    /\ before = <<>>
    /\ mid = <<>>
    /\ diskBefore = <<>>
    /\ err = <<>>
    /\ OptionsIdle

\* a chart after NewChart, LoadValueFiles, FindTemplates and ParseTemplates
InitChart ==
    /\ ParserIdle
    /\ OptionsIdle
    /\ \E n \in 1..MaxFiles : \E trees \in [1..n -> TreePool] :
           ValuesFiles = [i \in 1..n |-> [Values |-> trees[i], Changed |-> FALSE]]
    /\ \E n \in 0..MaxRefs : References \in [1..n -> RefPool]
    /\ \E t \in TemplatePool : Templates = t.Templates /\ disk = t.disk
    /\ chartPc = "loaded"
    /\ before = <<>>
    /\ mid = <<>>
    /\ diskBefore = disk
    /\ err = <<>>

\* Chart.ProcessReferences
ProcessReferences ==
    /\ chartPc \in {"loaded", "reloaded"}
    /\ \E first \in {injectTemplates(ValuesFiles, disk, Templates, 1)} :
       LET templateRefs == collectReferences(References, 1, {}, <<>>)
       IN  /\ disk' = first.fs
           /\ mid' = first.files
           /\ ValuesFiles' = IF first.panic THEN first.files
                             ELSE reconcileFiles(first.files, templateRefs)
           /\ chartPc' = IF first.panic THEN "panic"
                         ELSE IF chartPc = "loaded" THEN "processed" ELSE "reprocessed"
    /\ before' = ValuesFiles
    /\ diskBefore' = disk
    /\ UNCHANGED <<References, Templates, err>>
    /\ UNCHANGED optionVars
    /\ UNCHANGED parserVars

\* the chart is loaded again: the same trees with the Changed flags cleared
Reload ==
    /\ chartPc = "processed"
    /\ ValuesFiles' = [i \in DOMAIN ValuesFiles |-> [ValuesFiles[i] EXCEPT !.Changed = FALSE]]
    /\ chartPc' = "reloaded"
    /\ UNCHANGED <<References, Templates, disk, before, mid, diskBefore, err>>
    /\ UNCHANGED optionVars
    /\ UNCHANGED parserVars

NextChart == ProcessReferences \/ Reload

SpecChart == InitChart /\ [][NextChart]_vars

(***************************************************************************)
(* ParseFile as a process: one action per iteration of the loop of parse   *)
(***************************************************************************)

InitParse ==
    /\ \E n \in 0..MaxItems : \E ss \in [1..n -> Items] : input = Flatten(ss)
    /\ pos = newParser(input, TemplatePath).pos
    /\ lineNum = newParser(input, TemplatePath).lineNum
    /\ refs = <<>>
    /\ attempts = <<>>
    /\ pc = "parse"
    /\ ChartIdle

\* parse, an iteration whose match(openBrace) succeeds
ParseRef ==
    /\ pc = "parse"
    /\ pos < Len(input)
    /\ match(Parser, openBrace).ok
    /\ \E r \in {parseValueRef(match(Parser, openBrace).p)} :
           /\ refs' = refs \o r.ref
           /\ pos' = r.p.pos
           /\ lineNum' = r.p.lineNum
           /\ attempts' = Append(attempts, [open |-> pos, emitted |-> r.ref # <<>>,
                                            unclosed |-> r.p.unclosed])
           /\ pc' = IF r.p.panic THEN "panic" ELSE "parse"
    /\ UNCHANGED input
    /\ UNCHANGED chartVars

\* parse, an iteration whose match(openBrace) fails
ParseSkip ==
    /\ pc = "parse"
    /\ pos < Len(input)
    /\ ~match(Parser, openBrace).ok
    /\ lineNum' = IF current(Parser) = "\n" THEN lineNum + 1 ELSE lineNum
    /\ pos' = pos + 1
    /\ pc' = IF match(Parser, openBrace).p.panic \/ current(Parser) = OutOfRange
             THEN "panic" ELSE "parse"
    /\ UNCHANGED <<input, refs, attempts>>
    /\ UNCHANGED chartVars

\* parse, the loop condition fails and refs is returned
ParseReturn ==
    /\ pc = "parse"
    /\ pos >= Len(input)
    /\ pc' = "done"
    /\ UNCHANGED <<input, pos, lineNum, refs, attempts>>
    /\ UNCHANGED chartVars

NextParse == ParseRef \/ ParseSkip \/ ParseReturn

SpecParse == InitParse /\ [][NextParse]_vars

(***************************************************************************)
(* Reading a values tree                                                   *)
(***************************************************************************)

\* the node at the end of the key sequence parts: <<node>>, or <<>> if a key
\* is missing or an intermediate node is no mapping
RECURSIVE NodeAt(_, _)
NodeAt(tree, parts) ==
    IF parts = <<>> THEN <<MapNode(tree)>>
    ELSE IF Head(parts) \notin DOMAIN tree THEN <<>>
    ELSE IF Len(parts) = 1 THEN <<tree[Head(parts)]>>
    ELSE IF tree[Head(parts)].kind # "map" THEN <<>>
    ELSE NodeAt(tree[Head(parts)].map, Tail(parts))

\* the key sequences of all nodes of a tree
RECURSIVE PathsOf(_)
PathsOf(tree) ==
    UNION { {<<k>>} \cup (IF tree[k].kind = "map"
                          THEN { <<k>> \o q : q \in PathsOf(tree[k].map) }
                          ELSE {}) : k \in DOMAIN tree }

IsStrictPrefix(p, q) == Len(p) < Len(q) /\ SubSeq(q, 1, Len(p)) = p

\* the key sequence of the j-th reference of the chart
RefParts(j) == Split(References[j].Path, ".")

\* the first non-empty default among the references to path, else ""
FirstNonEmptyDefault(path) ==
    LET js == { j \in DOMAIN References :
                   References[j].Path = path /\ References[j].DefaultValue # <<>> }
    IN  IF js = {} THEN <<>>
        ELSE References[CHOOSE j \in js : \A k \in js : j <= k].DefaultValue

ProcessReferencesCompleted == chartPc \in {"processed", "reprocessed"}

(***************************************************************************)
(* Claims on ProcessReferences                                             *)
(***************************************************************************)

\* C1: after ProcessReferences completes, every path of the reference
\* sequence exists in every values tree (and valueExists reports it)
C1_ReferencedPathsExist ==
    ProcessReferencesCompleted =>
        \A i \in DOMAIN ValuesFiles : \A j \in DOMAIN References :
            /\ NodeAt(ValuesFiles[i].Values, RefParts(j)) # <<>>
            /\ valueExists(ValuesFiles[i].Values, References[j].Path)

\* a referenced path was missing from a non-empty tree and has been created
C1_Witness ==
    /\ chartPc = "processed"
    /\ \E i \in DOMAIN ValuesFiles : \E j \in DOMAIN References :
          /\ before[i].Values # EmptyMap
          /\ NodeAt(before[i].Values, RefParts(j)) = <<>>
          /\ NodeAt(ValuesFiles[i].Values, RefParts(j)) # <<>>

WrittenPaths == { RefParts(j) : j \in DOMAIN References } \cup { <<KeyDeployment, KeyStrategy>> }

C3_AbsentPathGetsFirstDefault ==
    ProcessReferencesCompleted =>
        \A i \in DOMAIN ValuesFiles : \A j \in DOMAIN References :
            NodeAt(before[i].Values, RefParts(j)) = <<>>
                => NodeAt(ValuesFiles[i].Values, RefParts(j))
                       = <<StringNode(FirstNonEmptyDefault(References[j].Path))>>

\* C3 amended: the same for a referenced path that is still absent after the
\* strategy injection pass and that no other referenced path passes through
C3_AbsentLeafPathGetsFirstDefault ==
    ProcessReferencesCompleted =>
        \A i \in DOMAIN ValuesFiles : \A j \in DOMAIN References :
            /\ NodeAt(mid[i].Values, RefParts(j)) = <<>>
            /\ ~ \E k \in DOMAIN References : IsStrictPrefix(RefParts(j), RefParts(k))
            => NodeAt(ValuesFiles[i].Values, RefParts(j))
                   = <<StringNode(FirstNonEmptyDefault(References[j].Path))>>

\* an absent path referenced with two different non-empty defaults holds the
\* first of the two
C3_Witness ==
    /\ chartPc = "processed"
    /\ \E i \in DOMAIN ValuesFiles : \E k, l \in DOMAIN References :
          /\ k < l
          /\ References[k].Path = References[l].Path
          /\ References[k].DefaultValue # <<>>
          /\ References[l].DefaultValue \notin {<<>>, References[k].DefaultValue}
          /\ NodeAt(before[i].Values, RefParts(k)) = <<>>
          /\ NodeAt(ValuesFiles[i].Values, RefParts(k)) = <<StringNode(References[k].DefaultValue)>>

\* C4: a second ProcessReferences with the same references on the reloaded
\* result of the first changes no tree and marks none dirty
C4_SecondCallChangesNothing ==
    chartPc = "reprocessed" =>
        \A i \in DOMAIN ValuesFiles :
            /\ ValuesFiles[i].Values = before[i].Values
            /\ ~ValuesFiles[i].Changed

(***************************************************************************)
(* Reading the input text by offsets (0-based, as in parse)                *)
(***************************************************************************)

\* the character at offset i, NUL past the end
CharAt(i) == IF i < Len(input) THEN input[i + 1] ELSE NUL

\* the text s stands at offset i
HasAt(i, s) == i + Len(s) <= Len(input) /\ SubSeq(input, i + 1, i + Len(s)) = s

\* the first offset from i on that holds no whitespace
SkipWs(i) ==
    CHOOSE j \in i..(Len(input) + i) :
        /\ ~isWhitespace(CharAt(j))
        /\ \A k \in i..(j - 1) : isWhitespace(CharAt(k))

\* the first offset from i on that holds no character of the path alphabet
PathEnd(i) ==
    CHOOSE j \in i..(Len(input) + i) :
        /\ ~(CharAt(j) = "." \/ isValidPathChar(CharAt(j)))
        /\ \A k \in i..(j - 1) : CharAt(k) = "." \/ isValidPathChar(CharAt(k))

\* s is a dotted path: not empty, over the path alphabet, no dot first, last
\* or next to another dot
WellFormedPath(s) ==
    /\ s # <<>>
    /\ \A n \in DOMAIN s : s[n] = "." \/ isValidPathChar(s[n])
    /\ s[1] # "." /\ s[Len(s)] # "."
    /\ \A n \in 1..(Len(s) - 1) : ~(s[n] = "." /\ s[n + 1] = ".")

\* the offsets of the opening delimiters in the input
Opens == { i \in 0..(Len(input) - 2) : HasAt(i, openBrace) }

\* for the opening delimiter at offset i: where .Values. would start, where
\* the path starts and ends, the path text, and the offset after the
\* whitespace that follows the path
PrefixAt(i) == SkipWs(i + 2)
PathStart(i) == PrefixAt(i) + Len(valuePrefix)
PathStop(i) == PathEnd(PathStart(i))
PathText(i) == Slice(input, PathStart(i), PathStop(i))
AfterPath(i) == SkipWs(PathStop(i))

\* the opening delimiter at offset i is followed by .Values. and a dotted path
HasPath(i) == HasAt(PrefixAt(i), valuePrefix) /\ WellFormedPath(PathText(i))

\* a well-formed reference without pipe starts at offset i
WellFormedNoPipe(i) == i \in Opens /\ HasPath(i) /\ HasAt(AfterPath(i), closeBrace)

\* the number of references emitted by the first n attempts, and the
\* reference emitted by the n-th attempt
EmittedUpTo(n) == Cardinality({ m \in 1..n : attempts[m].emitted })
RefOf(n) == refs[EmittedUpTo(n)]

\* the attempts that started at offset i and emitted a reference
EmittedAt(i) == { n \in DOMAIN attempts : attempts[n].open = i /\ attempts[n].emitted }

(***************************************************************************)
(* Claims on the scanner                                                   *)
(***************************************************************************)

\* C5: when ParseFile has returned, every well-formed pipe-less
\* {{ .Values.<path> }} of the input has exactly one reference, with its
\* path and an empty default, and the references stand in order of appearance
C5_EveryPlainOccurrenceEmitted ==
    pc = "done" =>
        /\ \A i \in Opens :
              WellFormedNoPipe(i) =>
                  /\ Cardinality(EmittedAt(i)) = 1
                  /\ \A n \in EmittedAt(i) :
                        /\ RefOf(n).Path = PathText(i)
                        /\ RefOf(n).DefaultValue = <<>>
        /\ \A m, n \in DOMAIN attempts : m < n => attempts[m].open < attempts[n].open
        /\ Len(refs) = EmittedUpTo(Len(attempts))

\* the character at offset m of a quoted text starting at offset lo is not
\* escaped: an even number of backslashes stands directly before it
Unescaped(m, lo) ==
    LET run == CHOOSE r \in 0..(m - lo) :
                   /\ \A k \in (m - r)..(m - 1) : CharAt(k) = "\\"
                   /\ (r = m - lo \/ CharAt(m - r - 1) # "\\")
    IN  run % 2 = 0

\* for the opening delimiter at offset i: the offset of the first pipe, of
\* the keyword of the first pipe segment and of the literal after it
PipeAt(i) == AfterPath(i)
KeywordAt(i) == SkipWs(PipeAt(i) + 1)
LiteralAt(i) == SkipWs(KeywordAt(i) + Len(defaultFunc))

\* the reference at offset i is followed by | default and something
HasDefault(i) ==
    /\ HasPath(i)
    /\ HasAt(PipeAt(i), defaultPipe)
    /\ HasAt(KeywordAt(i), defaultFunc)

\* the offsets of the unescaped quotes that can close the quoted literal of
\* the first pipe segment, and whether that segment is default "X" or
\* default 'X' with a closing quote
ClosingQuotes(i) ==
    { m \in (LiteralAt(i) + 1)..(Len(input) - 1) :
          CharAt(m) = CharAt(LiteralAt(i)) /\ Unescaped(m, LiteralAt(i) + 1) }
HasQuotedDefault(i) ==
    HasDefault(i) /\ CharAt(LiteralAt(i)) \in {"\"", "'"} /\ ClosingQuotes(i) # {}

\* X: the text between the quotes without the escaping backslashes
QuotedDefault(i) ==
    LET lo == LiteralAt(i) + 1
        hi == CHOOSE m \in ClosingQuotes(i) : \A k \in ClosingQuotes(i) : m <= k
        offsets == [n \in 1..(hi - lo) |-> lo + n - 1]
        Kept(m) == ~(CharAt(m) = "\\" /\ Unescaped(m, lo))
        kept == SelectSeq(offsets, Kept)
    IN  [n \in 1..Len(kept) |-> CharAt(kept[n])]

\* the first pipe segment is default N, and N: the digits and dots there
HasNumericDefault(i) ==
    HasDefault(i) /\ (isDigit(CharAt(LiteralAt(i))) \/ CharAt(LiteralAt(i)) = ".")
NumericDefault(i) ==
    LET lo == LiteralAt(i)
        hi == CHOOSE j \in lo..Len(input) :
                  /\ ~(isDigit(CharAt(j)) \/ CharAt(j) = ".")
                  /\ \A k \in lo..(j - 1) : isDigit(CharAt(k)) \/ CharAt(k) = "."
    IN  Slice(input, lo, hi)

\* C6: a reference emitted for a {{ that is followed by | default "X",
\* | default 'X' or | default N has the default X without its escaping
\* backslashes, or N
C6_DefaultIsTheLiteral ==
    \A n \in DOMAIN attempts :
        attempts[n].emitted =>
            /\ HasQuotedDefault(attempts[n].open)
                   => RefOf(n).DefaultValue = QuotedDefault(attempts[n].open)
            /\ HasNumericDefault(attempts[n].open)
                   => RefOf(n).DefaultValue = NumericDefault(attempts[n].open)

\* the number of newline characters before offset i
NewlinesBefore(i) == Cardinality({ k \in 0..(i - 1) : CharAt(k) = "\n" })

\* C7: the LineNumber of every emitted reference is 1 plus the number of
\* newline characters before its opening delimiter
C7_LineNumberOfOpeningDelimiter ==
    \A n \in DOMAIN attempts :
        attempts[n].emitted => RefOf(n).LineNumber = 1 + NewlinesBefore(attempts[n].open)

\* C8: the path of every emitted reference is not empty, is made of
\* alphanumeric characters, ".", "-" and "_", has no two adjacent dots and
\* neither starts nor ends with a dot
C8_EmittedPathsAreDotted ==
    \A n \in DOMAIN refs : WellFormedPath(refs[n].Path)

\* a nested path was emitted although the input also holds an attempt with
\* a .Values. prefix that was dropped
C8_Witness ==
    /\ pc = "done"
    /\ \E n \in DOMAIN refs : \E k \in DOMAIN refs[n].Path : refs[n].Path[k] = "."
    /\ \E n \in DOMAIN attempts :
          ~attempts[n].emitted /\ HasAt(PrefixAt(attempts[n].open), valuePrefix)

\* the opening delimiter at offset i is not followed by .Values.
NoPrefix(i) == ~HasAt(PrefixAt(i), valuePrefix)

\* .Values. is followed by an empty path or one with a leading, trailing or
\* adjacent dot
BadPath(i) == HasAt(PrefixAt(i), valuePrefix) /\ ~WellFormedPath(PathText(i))

\* a character, which by PathStop is outside the path alphabet, directly
\* follows the path
CharAfterPath(i) == HasPath(i) /\ PathStop(i) < Len(input)

\* that character is neither whitespace nor a pipe nor the start of }}
StrayCharAfterPath(i) ==
    /\ CharAfterPath(i)
    /\ ~isWhitespace(CharAt(PathStop(i)))
    /\ ~HasAt(PathStop(i), defaultPipe)
    /\ ~HasAt(PathStop(i), closeBrace)

\* the first pipe segment is default with an opening quote that is never closed
UnclosedQuote(i) ==
    HasDefault(i) /\ CharAt(LiteralAt(i)) \in {"\"", "'"} /\ ClosingQuotes(i) = {}

\* no }} stands after the opening delimiter, or what follows the path and
\* its whitespace is neither a pipe nor }}
NoClose(i) ==
    \/ ~ \E k \in (i + 2)..Len(input) : HasAt(k, closeBrace)
    \/ HasPath(i) /\ ~HasAt(AfterPath(i), defaultPipe) /\ ~HasAt(AfterPath(i), closeBrace)

\* C9 as stated: when ParseFile has returned, no attempt has emitted a
\* reference for a {{ that lacks .Values., has a bad path, has a character
\* outside the path alphabet directly after the path, has an unclosed quoted
\* default or lacks }}
C9_MalformedYieldsNothing ==
    pc = "done" =>
        \A n \in DOMAIN attempts :
            attempts[n].emitted =>
                /\ ~NoPrefix(attempts[n].open)
                /\ ~BadPath(attempts[n].open)
                /\ ~CharAfterPath(attempts[n].open)
                /\ ~UnclosedQuote(attempts[n].open) /\ ~attempts[n].unclosed
                /\ ~NoClose(attempts[n].open)

\* C9 amended: the same, where the character directly after the path is
\* neither whitespace nor a pipe nor the start of }}
C9_MalformedYieldsNothingStray ==
    pc = "done" =>
        \A n \in DOMAIN attempts :
            attempts[n].emitted =>
                /\ ~NoPrefix(attempts[n].open)
                /\ ~BadPath(attempts[n].open)
                /\ ~StrayCharAfterPath(attempts[n].open)
                /\ ~UnclosedQuote(attempts[n].open) /\ ~attempts[n].unclosed
                /\ ~NoClose(attempts[n].open)

\* ParseFile has returned after one attempt dropped for a stray character
\* after its path and one dropped for an unclosed quoted default
C9_Witness ==
    /\ pc = "done"
    /\ \E m, n \in DOMAIN attempts :
          /\ ~attempts[m].emitted /\ StrayCharAfterPath(attempts[m].open)
          /\ ~attempts[n].emitted /\ UnclosedQuote(attempts[n].open) /\ attempts[n].unclosed

\* C10: every iteration of the loop of parse moves pos forward and pos never
\* passes the end of the input by more than two, so the iterations are
\* bounded; and ParseFile is either in the loop, where the guards of
\* ParseRef, ParseSkip and ParseReturn leave one of them possible, or has
\* returned: no read has indexed outside the input
C10_ParseFileReturns ==
    /\ [][pc' = "parse" => pos' > pos /\ pos' <= Len(input) + 2]_vars
    /\ [](pc \in {"parse", "done"})

\* ParseFile has returned from an input that ends inside an abandoned attempt,
\* with pos past the end of the input
C10_Witness ==
    /\ pc = "done"
    /\ pos > Len(input)
    /\ attempts # <<>> /\ ~attempts[Len(attempts)].emitted

\* C11: an attempt that emits nothing leaves pos right after its {{, and
\* when ParseFile has returned, every well-formed pipe-less reference whose
\* {{ starts after the {{ of such an attempt has been emitted
C11_ResumeAfterOpeningDelimiter ==
    /\ [][(Len(attempts') = Len(attempts) + 1 /\ ~attempts'[Len(attempts')].emitted)
              => pos' = pos + 2]_vars
    /\ [](pc = "done" =>
              \A n \in DOMAIN attempts :
                  ~attempts[n].emitted =>
                      \A i \in Opens :
                          i >= attempts[n].open + 2 /\ WellFormedNoPipe(i)
                              => EmittedAt(i) # {})

\* the keyword of the first pipe segment is default and nothing more
ExactDefault(i) ==
    /\ HasDefault(i)
    /\ ~isValidPathChar(CharAt(KeywordAt(i) + Len(defaultFunc)))

\* the default that the first pipe segment alone gives the reference at
\* offset i: its literal when its keyword is default, else the empty string
FirstSegmentDefault(i) ==
    IF ExactDefault(i) /\ HasQuotedDefault(i) THEN QuotedDefault(i)
    ELSE IF ExactDefault(i) /\ HasNumericDefault(i) THEN NumericDefault(i)
    ELSE <<>>

\* C12: the default of every emitted reference is the one its first pipe
\* segment gives it; no later segment sets or changes it
C12_OnlyFirstSegmentSetsDefault ==
    \A n \in DOMAIN attempts :
        attempts[n].emitted =>
            RefOf(n).DefaultValue = FirstSegmentDefault(attempts[n].open)

(***************************************************************************)
(* injectDeploymentStrategy called on one template of a loaded chart        *)
(***************************************************************************)

ServiceNamingDeployment == <<"k", "i", "n", "d", ":", " ", "S", "e", "r", "v", "i", "c", "e", "\n", "#", " ", "k", "i", "n", "d", ":", " ", "D", "e", "p", "l", "o", "y", "m", "e", "n", "t", "\n", "s", "p", "e", "c", ":", "\n", " ", " ", "p", "o", "r", "t", "s", ":", " ", "x">>

DeploymentWithStrategy == <<"k", "i", "n", "d", ":", " ", "D", "e", "p", "l", "o", "y", "m", "e", "n", "t", "\n", "s", "p", "e", "c", ":", "\n", " ", " ", "s", "t", "r", "a", "t", "e", "g", "y", ":", "\n", " ", " ", " ", " ", "t", "y", "p", "e", ":", " ", "R", "e", "c", "r", "e", "a", "t", "e">>

DeploymentPodStrategy == <<"k", "i", "n", "d", ":", " ", "D", "e", "p", "l", "o", "y", "m", "e", "n", "t", "\n", "s", "p", "e", "c", ":", "\n", " ", " ", "t", "e", "m", "p", "l", "a", "t", "e", ":", "\n", " ", " ", " ", " ", "s", "p", "e", "c", ":", "\n", " ", " ", " ", " ", " ", " ", "s", "t", "r", "a", "t", "e", "g", "y", ":", " ", "x">>

DeploymentStrategyAfterTemplate == <<"k", "i", "n", "d", ":", " ", "D", "e", "p", "l", "o", "y", "m", "e", "n", "t", "\n", "s", "p", "e", "c", ":", "\n", " ", " ", "t", "e", "m", "p", "l", "a", "t", "e", ":", "\n", " ", " ", " ", " ", "s", "p", "e", "c", ":", "\n", " ", " ", " ", " ", " ", " ", "a", ":", " ", "x", "\n", " ", " ", "s", "t", "r", "a", "t", "e", "g", "y", ":", "\n", " ", " ", " ", " ", "t", "y", "p", "e", ":", " ", "R", "e", "c", "r", "e", "a", "t", "e">>

DeploymentUnparsable == <<"k", "i", "n", "d", ":", " ", "D", "e", "p", "l", "o", "y", "m", "e", "n", "t", "\n", "s", "p", "e", "c", ":", " ", "a", ":", " ", "b">>

DeploymentNoSpec == <<"k", "i", "n", "d", ":", " ", "D", "e", "p", "l", "o", "y", "m", "e", "n", "t", "\n", "m", "e", "t", "a", "d", "a", "t", "a", ":", "\n", " ", " ", "n", "a", "m", "e", ":", " ", "x">>

DeploymentTrailingSpace == <<"k", "i", "n", "d", ":", " ", "D", "e", "p", "l", "o", "y", "m", "e", "n", "t", "\n", "s", "p", "e", "c", ":", " ", " ", "\n", " ", "r", "e", "p", "l", "i", "c", "a", "s", ":", " ", "1">>

DeploymentWithDirective == <<"k", "i", "n", "d", ":", " ", "D", "e", "p", "l", "o", "y", "m", "e", "n", "t", "\n", "{", "{", "-", " ", "i", "f", " ", ".", "V", "a", "l", "u", "e", "s", ".", "x", " ", "}", "}", "\n", "s", "p", "e", "c", ":", "\n", " ", " ", "r", "e", "p", "l", "i", "c", "a", "s", ":", " ", "1">>

\* the template texts the injector is called on
ManifestPool ==
    { ServiceManifest, DeploymentManifest, ServiceNamingDeployment, DeploymentWithStrategy, DeploymentPodStrategy, DeploymentStrategyAfterTemplate,
      DeploymentUnparsable, DeploymentNoSpec, DeploymentTrailingSpace, DeploymentWithDirective }

KeyReplicas == <<"r", "e", "p", "l", "i", "c", "a", "s">>

\* the values trees of the chart the injector is called on
InjectTreePool ==
    { EmptyMap,
      KeyDeployment :> StringNode(<<"x">>),
      (<<"a">> :> StringNode(<<"x">>)) @@ (KeyDeployment :> MapNode(KeyReplicas :> IntNode(3))),
      KeyDeployment :> MapNode((KeyReplicas :> IntNode(3))
                               @@ (KeyStrategy :> MapNode(KeyType :> StringNode(<<"R", "e", "c", "r", "e", "a", "t", "e">>)))),
      KeyDeployment :> MapNode(KeyStrategy :> StringNode(<<"x">>)) }

\* a chart after NewChart, LoadValueFiles and FindTemplates, with one template
InitInject ==
    /\ ParserIdle
    /\ OptionsIdle
    /\ \E n \in 1..MaxFiles : \E trees \in [1..n -> InjectTreePool] :
           ValuesFiles = [i \in 1..n |-> [Values |-> trees[i], Changed |-> FALSE]]
    /\ References = <<>>
    /\ Templates = <<TemplateFile>>
    /\ \E m \in ManifestPool : \E r, w \in BOOLEAN :
           disk = (TemplateFile :> [content |-> m, readable |-> r, writable |-> w])
    /\ chartPc = "loaded"
    /\ before = <<>>
    /\ mid = <<>>
    /\ diskBefore = disk
    /\ err = <<>>

\* c.injectDeploymentStrategy(template)
InjectDeploymentStrategy ==
    /\ chartPc = "loaded"
    /\ \E r \in {injectDeploymentStrategy(ValuesFiles, disk, Templates[1])} :
           /\ ValuesFiles' = r.files
           /\ disk' = r.fs
           /\ err' = IF r.err = "" THEN <<>> ELSE <<r.err>>
           /\ chartPc' = IF r.panic THEN "panic" ELSE "injected"
    /\ before' = ValuesFiles
    /\ diskBefore' = disk
    /\ UNCHANGED <<References, Templates, mid>>
    /\ UNCHANGED optionVars
    /\ UNCHANGED parserVars

NextInject == InjectDeploymentStrategy

SpecInject == InitInject /\ [][NextInject]_vars

(***************************************************************************)
(* Claims on injectDeploymentStrategy                                      *)
(***************************************************************************)

\* a line that holds a key: not blank and not a template directive
IsKeyLine(line) == TrimSpace(line) # <<>> /\ ~HasPrefix(TrimSpace(line), openBrace)

\* the indentation of the manifest's top-level keys
RootIndent(lines) ==
    LET ks == { i \in DOMAIN lines : IsKeyLine(lines[i]) }
    IN  IF ks = {} THEN 0
        ELSE IndentOf(lines[CHOOSE i \in ks : \A j \in ks : IndentOf(lines[i]) <= IndentOf(lines[j])])

\* the index of the root spec: line, 0 when the manifest has none
RootSpec(lines) ==
    LET ss == { i \in DOMAIN lines :
                   TrimSpace(lines[i]) = SpecLine /\ IndentOf(lines[i]) = RootIndent(lines) }
    IN  IF ss = {} THEN 0 ELSE CHOOSE i \in ss : \A j \in ss : i <= j

\* the indices of the lines inside the block of the root spec
RootSpecBlock(lines) ==
    { j \in DOMAIN lines :
         /\ RootSpec(lines) # 0 /\ j > RootSpec(lines) /\ IsKeyLine(lines[j])
         /\ \A k \in (RootSpec(lines) + 1)..j :
                IsKeyLine(lines[k]) => IndentOf(lines[k]) > RootIndent(lines) }

\* the indices of the keys directly under the root spec
RootSpecChildren(lines) ==
    { j \in RootSpecBlock(lines) :
         \A k \in RootSpecBlock(lines) : IndentOf(lines[j]) <= IndentOf(lines[k]) }

\* the number of strategy: keys directly under the root spec
RootStrategyKeys(lines) ==
    Cardinality({ j \in RootSpecChildren(lines) : HasPrefix(TrimSpace(lines[j]), StrategyKey) })

\* the text is a Deployment manifest
IsDeployment(content) ==
    LET manifest == yamlUnmarshalKind(removeHelmTemplates(content))
    IN  ~manifest.err /\ manifest.Kind = <<"D", "e", "p", "l", "o", "y", "m", "e", "n", "t">>

\* new is old with the five strategy lines, at some indentation, inserted
\* right after line s
GainsStrategyLines(old, new, s) ==
    /\ Len(new) = Len(old) + 5
    /\ SubSeq(new, 1, s) = SubSeq(old, 1, s)
    /\ SubSeq(new, s + 6, Len(new)) = SubSeq(old, s + 1, Len(old))
    /\ \A k \in 1..5 : TrimSpace(new[s + k]) = strategySection(<<>>, 0)[k]

\* the tree has a deployment mapping with a strategy key
HasStrategy(tree) == NodeAt(tree, <<KeyDeployment, KeyStrategy>>) # <<>>

InjectReturned == chartPc \in {"injected", "panic"}

\* C13: when the injector has run on a readable and writable Deployment
\* manifest whose root spec has no strategy key, the template text is the
\* old text with the five strategy lines right after the root spec: line,
\* and every tree that had no deployment.strategy holds the default strategy
\* and is dirty
C13_DeploymentGainsStrategy ==
    InjectReturned =>
        LET old == diskBefore[TemplateFile]
            lines == Split(old.content, "\n")
        IN  (/\ old.readable /\ old.writable
             /\ IsDeployment(old.content)
             /\ RootSpec(lines) # 0
             /\ RootStrategyKeys(lines) = 0
             /\ \E i \in DOMAIN before : ~HasStrategy(before[i].Values))
            => /\ chartPc = "injected"
               /\ GainsStrategyLines(lines, Split(disk[TemplateFile].content, "\n"), RootSpec(lines))
               /\ \A i \in DOMAIN before :
                      ~HasStrategy(before[i].Values) =>
                          /\ NodeAt(ValuesFiles[i].Values, <<KeyDeployment, KeyStrategy>>)
                                 = <<MapNode(defaultDeploymentStrategy)>>
                          /\ ValuesFiles[i].Changed

\* the text is a Deployment manifest with a root spec: that has no strategy
\* key directly under it
NeedsStrategy(content) ==
    /\ IsDeployment(content)
    /\ RootSpec(Split(content, "\n")) # 0
    /\ RootStrategyKeys(Split(content, "\n")) = 0

\* C14: after the injector has run on a readable and writable template, the
\* template text has gained the strategy lines and every tree without
\* deployment.strategy holds the default strategy if the template is a
\* Deployment manifest with no strategy key under its root spec, and
\* otherwise the template and all values trees are as they were
C14_InjectsExactlyWhenTemplateLacksStrategy ==
    (InjectReturned /\ diskBefore[TemplateFile].readable /\ diskBefore[TemplateFile].writable) =>
        LET old == diskBefore[TemplateFile].content
        IN  IF NeedsStrategy(old)
            THEN /\ GainsStrategyLines(Split(old, "\n"), Split(disk[TemplateFile].content, "\n"),
                                       RootSpec(Split(old, "\n")))
                 /\ \A i \in DOMAIN before :
                        ~HasStrategy(before[i].Values) =>
                            NodeAt(ValuesFiles[i].Values, <<KeyDeployment, KeyStrategy>>)
                                = <<MapNode(defaultDeploymentStrategy)>>
            ELSE /\ disk = diskBefore
                 /\ ValuesFiles = before

\* the injector has passed the template text to updateDeploymentTemplate and
\* written what it returned
TemplateUpdated ==
    /\ InjectReturned
    /\ diskBefore[TemplateFile].readable /\ diskBefore[TemplateFile].writable
    /\ IsDeployment(diskBefore[TemplateFile].content)
    /\ \E i \in DOMAIN before : ~HasStrategy(before[i].Values)

\* C15: the text returned by updateDeploymentTemplate is the old text with
\* the strategy lines after the root spec: line when the old text has a root
\* spec: line with no strategy key directly under it, and the old text
\* otherwise; it never has two strategy keys directly under the root spec
C15_InsertsIffNoRootStrategy ==
    TemplateUpdated =>
        LET old == Split(diskBefore[TemplateFile].content, "\n")
            new == Split(disk[TemplateFile].content, "\n")
        IN  /\ chartPc = "injected"
            /\ IF RootSpec(old) # 0 /\ RootStrategyKeys(old) = 0
               THEN GainsStrategyLines(old, new, RootSpec(old))
               ELSE new = old
            /\ RootStrategyKeys(new) <= 1

\* the mapping under deployment, empty when deployment is absent or a scalar
DeploymentOf(tree) ==
    IF KeyDeployment \in DOMAIN tree /\ tree[KeyDeployment].kind = "map"
    THEN tree[KeyDeployment].map ELSE EmptyMap

\* C16: when the injector has returned, in every tree each key that was under
\* deployment, other than strategy, is still there with its value, and a tree
\* that had a deployment.strategy entry is as it was, Changed flag included
C16_InjectorKeepsDeploymentKeys ==
    InjectReturned =>
        \A i \in DOMAIN before :
            /\ \A k \in DOMAIN DeploymentOf(before[i].Values) \ {KeyStrategy} :
                   /\ k \in DOMAIN DeploymentOf(ValuesFiles[i].Values)
                   /\ DeploymentOf(ValuesFiles[i].Values)[k] = DeploymentOf(before[i].Values)[k]
            /\ HasStrategy(before[i].Values) => ValuesFiles[i] = before[i]

\* the injector gave the first tree, which had a replicas key under
\* deployment, the default strategy, and met a strategy entry in the second
C16_Witness ==
    /\ chartPc = "injected"
    /\ Len(before) = 2
    /\ DOMAIN DeploymentOf(before[1].Values) = {KeyReplicas}
    /\ DOMAIN DeploymentOf(ValuesFiles[1].Values) = {KeyReplicas, KeyStrategy}
    /\ ValuesFiles[1].Changed
    /\ NodeAt(before[2].Values, <<KeyDeployment, KeyStrategy>>) = <<StringNode(<<"x">>)>>
    /\ disk # diskBefore

(***************************************************************************)
(* setNestedValue called on a values tree                                  *)
(***************************************************************************)

\* the trees setNestedValue is called on
SetTreePool ==
    TreePool \cup
    { <<"a">> :> StringNode(<<"x">>),
      (<<"a">> :> IntNode(0)) @@ (<<"c">> :> StringNode(<<"k">>)),
      (<<"a">> :> MapNode((<<"b">> :> StringNode(<<"z">>)) @@ (<<"d">> :> StringNode(<<"k">>))))
         @@ (<<"c">> :> MapNode(<<"d">> :> IntNode(1))),
      <<"a">> :> MapNode(<<"b">> :> MapNode(<<"c">> :> StringNode(<<"z">>))) }

\* the paths and the values setNestedValue is called with
SetPathPool == { <<"a">>, <<"a", ".", "b">>, <<"a", ".", "b", ".", "c">>, <<"c", ".", "d">>, <<"d", "e", "p", "l", "o", "y", "m", "e", "n", "t", ".", "r", "e", "p", "l", "i", "c", "a", "s">> }

SetValuePool == { <<>>, <<"v">> }

InitSet ==
    /\ ParserIdle
    /\ OptionsIdle
    /\ \E tree \in SetTreePool : ValuesFiles = <<[Values |-> tree, Changed |-> FALSE]>>
    /\ \E path \in SetPathPool : \E value \in SetValuePool : References = <<MkRef(path, value)>>
    /\ Templates = <<>>
    /\ disk = <<>>
    /\ chartPc = "loaded"
    /\ before = <<>>
    /\ mid = <<>>
    /\ diskBefore = <<>>
    /\ err = <<>>

\* setNestedValue(file.Values, ref.Path, ref.DefaultValue)
SetNestedValue ==
    /\ chartPc = "loaded"
    /\ ValuesFiles' = [ValuesFiles EXCEPT ![1].Values =
                           setNestedValue(@, References[1].Path, References[1].DefaultValue)]
    /\ before' = ValuesFiles
    /\ chartPc' = "set"
    /\ UNCHANGED <<References, Templates, disk, mid, diskBefore, err>>
    /\ UNCHANGED optionVars
    /\ UNCHANGED parserVars

NextSet == SetNestedValue

SpecSet == InitSet /\ [][NextSet]_vars

(***************************************************************************)
(* Claims on setNestedValue                                                *)
(***************************************************************************)

IsPrefix(p, q) == Len(p) <= Len(q) /\ SubSeq(q, 1, Len(p)) = p

\* C17: after setNestedValue(tree, path, value) the final segment of the path
\* holds the string value; every intermediate segment holds a mapping, which
\* has the next segment as its only key when the segment was missing or held
\* a non-mapping value; every other key of the old tree is as it was, and
\* the tree has no further keys
C17_SetNestedValueWritesPath ==
    chartPc = "set" =>
        LET old == before[1].Values
            new == ValuesFiles[1].Values
            parts == RefParts(1)
            value == References[1].DefaultValue
            Pre(k) == SubSeq(parts, 1, k)
            IsMapAt(tree, q) == NodeAt(tree, q) # <<>> /\ NodeAt(tree, q)[1].kind = "map"
        IN  /\ NodeAt(new, parts) = <<StringNode(value)>>
            /\ \A k \in 1..(Len(parts) - 1) :
                   /\ IsMapAt(new, Pre(k))
                   /\ ~IsMapAt(old, Pre(k)) => DOMAIN NodeAt(new, Pre(k))[1].map = {parts[k + 1]}
            /\ \A q \in PathsOf(old) :
                   (~IsPrefix(q, parts) /\ ~IsPrefix(parts, q))
                       => NodeAt(new, q) = NodeAt(old, q)
            /\ \A q \in PathsOf(new) :
                   q \in PathsOf(old) \/ IsPrefix(q, parts)

\* setNestedValue was called with a path of three segments on a tree whose
\* first segment held a scalar next to another key
C17_Witness ==
    /\ chartPc = "set"
    /\ Len(RefParts(1)) = 3
    /\ NodeAt(before[1].Values, <<RefParts(1)[1]>>) = <<IntNode(0)>>
    /\ NodeAt(ValuesFiles[1].Values, <<<<"c">>>>) = <<StringNode(<<"k">>)>>
    /\ NodeAt(ValuesFiles[1].Values, RefParts(1)) = <<StringNode(<<"v">>)>>

(***************************************************************************)
(* Claims on the shape of the reconciled trees                             *)
(***************************************************************************)

\* the tree holds a mapping at the path
MapAt(tree, parts) == NodeAt(tree, parts) # <<>> /\ NodeAt(tree, parts)[1].kind = "map"

\* the tree holds a string or a number at the path
ScalarAt(tree, parts) == NodeAt(tree, parts) # <<>> /\ NodeAt(tree, parts)[1].kind # "map"

\* each intermediate segment of the path of reference j holds a mapping in tree i
IntermediatesAreMaps(i, j) ==
    \A k \in 1..(Len(RefParts(j)) - 1) :
        MapAt(ValuesFiles[i].Values, SubSeq(RefParts(j), 1, k))

\* C18: after ProcessReferences, in every tree the final segment of every
\* referenced path holds a scalar and each intermediate segment a mapping
C18_ReferencedPathsAreScalars ==
    ProcessReferencesCompleted =>
        \A i \in DOMAIN ValuesFiles : \A j \in DOMAIN References :
            /\ ScalarAt(ValuesFiles[i].Values, RefParts(j))
            /\ IntermediatesAreMaps(i, j)

\* C18 amended: the final segment holds a scalar unless the path is a strict
\* prefix of another referenced path or held a mapping when the third pass
\* began, and then it holds a mapping
C18_ReferencedPathsAreScalarsUnlessPrefix ==
    ProcessReferencesCompleted =>
        \A i \in DOMAIN ValuesFiles : \A j \in DOMAIN References :
            /\ IntermediatesAreMaps(i, j)
            /\ IF \/ \E l \in DOMAIN References : IsStrictPrefix(RefParts(j), RefParts(l))
                  \/ MapAt(mid[i].Values, RefParts(j))
               THEN MapAt(ValuesFiles[i].Values, RefParts(j))
               ELSE ScalarAt(ValuesFiles[i].Values, RefParts(j))

\* the references a and a.b were reconciled, in this order, into a tree that
\* held neither path
C18_Witness ==
    /\ chartPc = "processed"
    /\ Len(References) = 2
    /\ References[1].Path = PathA /\ References[2].Path = PathAB
    /\ \E i \in DOMAIN ValuesFiles :
          /\ NodeAt(before[i].Values, <<PathA>>) = <<>>
          /\ MapAt(ValuesFiles[i].Values, <<PathA>>)
          /\ ScalarAt(ValuesFiles[i].Values, <<PathA, <<"b">>>>)

(***************************************************************************)
(* A loaded chart with its values files on disk: ProcessReferences         *)
(* followed by UpdateValueFiles                                            *)
(***************************************************************************)

\* a comment line at the head of a values file
ValuesComment == <<"#", " ", "v", "a", "l", "u", "e", "s", "\n">>

\* the text of a values file that yaml.Unmarshal loads as tree
ValuesText(tree) ==
    ValuesComment \o (IF tree = EmptyMap THEN <<>> ELSE yamlMarshal(tree))

\* the trees of the values files of the chart
FilesTreePool ==
    { EmptyMap,
      (<<"a">> :> StringNode(<<"x">>)) @@ (KeyDeployment :> MapNode(KeyReplicas :> IntNode(3))),
      (<<"a">> :> MapNode(<<"b">> :> StringNode(<<>>)))
         @@ (KeyDeployment :> MapNode(KeyStrategy :> MapNode(KeyType :> StringNode(<<"R", "e", "c", "r", "e", "a", "t", "e">>)))) }

\* the reference sequences of the chart
FilesRefPool == { <<>>, <<MkRef(PathA, <<>>)>>, <<MkRef(PathAB, <<"x">>)>>,
                  <<MkRef(PathAB, <<>>), MkRef(PathA, <<"y">>)>> }

\* the templates of the chart
FilesTemplatePool ==
    { t \in TemplatePool : t.Templates = <<>> \/ t.disk[TemplateFile].readable }

\* a chart after NewChart, LoadValueFiles, FindTemplates and ParseTemplates;
\* each values file holds the text of its tree and can be written or not
InitFiles ==
    /\ ParserIdle
    /\ OptionsIdle
    /\ \E n \in 1..MaxFiles : \E trees \in [1..n -> FilesTreePool] : \E w \in [1..n -> BOOLEAN] :
       \E t \in FilesTemplatePool :
           /\ ValuesFiles = [i \in 1..n |-> [Values |-> trees[i], Changed |-> FALSE]]
           /\ Templates = t.Templates
           /\ disk = t.disk @@ [p \in { ValuesPath(i) : i \in 1..n } |->
                                   LET i == CHOOSE i \in 1..n : ValuesPath(i) = p
                                   IN  [content |-> ValuesText(trees[i]),
                                        readable |-> TRUE, writable |-> w[i]]]
    /\ References \in FilesRefPool
    /\ chartPc = "loaded"
    /\ before = <<>>
    /\ mid = <<>>
    /\ diskBefore = disk
    /\ err = <<>>

\* Chart.UpdateValueFiles
UpdateValueFiles ==
    /\ chartPc = "processed"
    /\ \E r \in {updateValueFiles(ValuesFiles, disk)} :
           /\ disk' = r.fs
           /\ err' = r.err
    /\ diskBefore' = disk
    /\ chartPc' = "updated"
    /\ UNCHANGED <<ValuesFiles, References, Templates, before, mid>>
    /\ UNCHANGED optionVars
    /\ UNCHANGED parserVars

NextFiles == ProcessReferences \/ UpdateValueFiles

SpecFiles == InitFiles /\ [][NextFiles]_vars

(***************************************************************************)
(* Claims on the dirty flag and UpdateValueFiles                           *)
(***************************************************************************)

\* the first pass of ProcessReferences put deployment.strategy into tree i
StrategyInjected(i) == ~HasStrategy(before[i].Values) /\ HasStrategy(mid[i].Values)

\* the third pass of ProcessReferences created a referenced path in tree i
PathCreated(i) ==
    \E j \in DOMAIN References :
        /\ NodeAt(mid[i].Values, RefParts(j)) = <<>>
        /\ NodeAt(ValuesFiles[i].Values, RefParts(j)) # <<>>

\* C19: after ProcessReferences a tree is dirty exactly when a referenced
\* path was created in it or the strategy was injected into it, and after
\* UpdateValueFiles the file of every tree that is not dirty is on disk as it
\* was
C19_DirtyIffChangedAndOnlyDirtyWritten ==
    /\ chartPc \in {"processed", "updated"} =>
           \A i \in DOMAIN ValuesFiles :
               ValuesFiles[i].Changed <=> (PathCreated(i) \/ StrategyInjected(i))
    /\ chartPc = "updated" =>
           \A i \in DOMAIN ValuesFiles :
               ~ValuesFiles[i].Changed => disk[ValuesPath(i)] = diskBefore[ValuesPath(i)]

\* UpdateValueFiles has rewritten the first values file, whose tree was
\* dirty, and has left the second, whose tree was not, with its comment line
C19_Witness ==
    /\ chartPc = "updated"
    /\ Len(ValuesFiles) = 2
    /\ ValuesFiles[1].Changed /\ ~ValuesFiles[2].Changed
    /\ disk[ValuesPath(1)].content = yamlMarshal(ValuesFiles[1].Values)
    /\ disk[ValuesPath(1)] # diskBefore[ValuesPath(1)]
    /\ disk[ValuesPath(2)].content = ValuesText(ValuesFiles[2].Values)
    /\ References # <<>>

(***************************************************************************)
(* processChart of cmd/shcv: NewChart, LoadValueFiles, FindTemplates,      *)
(* ParseTemplates, ProcessReferences and UpdateValueFiles on a chart       *)
(* directory of the file system                                            *)
(***************************************************************************)

\* the loop of parse from the state p on; the iterations that only skip a
\* character are taken together up to the next {{
RECURSIVE parseLoop(_, _)
parseLoop(p, found) ==
    LET opens == { i \in p.pos..(Len(p.input) - 2) : SubSeq(p.input, i + 1, i + 2) = openBrace }
    IN  IF p.pos >= Len(p.input) \/ p.panic \/ opens = {} THEN [refs |-> found, panic |-> p.panic]
        ELSE \* the next {{ is at offset i
             LET i == CHOOSE i \in opens : \A j \in opens : i <= j
                 newlines == Cardinality({ k \in p.pos..(i - 1) : p.input[k + 1] = "\n" })
             IN  CHOOSE res \in
                     { parseLoop(r.p, found \o r.ref) :
                       r \in {parseValueRef(match([p EXCEPT !.pos = i, !.lineNum = @ + newlines],
                                                  openBrace).p)} } : TRUE

ParseFile(content, templatePath) == parseLoop(newParser(content, templatePath), <<>>)

\* the text ParseTemplates builds from the lines of bufio.Scanner: each line
\* without its line end, followed by "\n"
ScanText(content) ==
    LET lines == Split(content, "\n")
        kept == IF lines[Len(lines)] = <<>> THEN SubSeq(lines, 1, Len(lines) - 1) ELSE lines
        strip(l) == IF l # <<>> /\ l[Len(l)] = "\r" THEN SubSeq(l, 1, Len(l) - 1) ELSE l
    IN  Flatten([n \in DOMAIN kept |-> strip(kept[n]) \o <<"\n">>])

ChartDir == "chart"

TemplatesDir == "chart/templates"

\* NewChart(dir) with the default options: one values file, values.yaml
NewChart(fs, dir) ==
    IF dir = "" THEN [err |-> <<"invalid chart directory", "directory path is empty">>,
                      files |-> <<>>]
    ELSE IF dir \notin DOMAIN fs THEN [err |-> <<"invalid chart directory", "stat">>,
                                       files |-> <<>>]
    ELSE [err |-> <<>>, files |-> <<[Values |-> EmptyMap, Changed |-> FALSE]>>]

\* Chart.LoadValueFiles: a file that does not exist is read as no data
RECURSIVE LoadValueFiles(_, _, _)
LoadValueFiles(files, fs, i) ==
    IF i > Len(files) THEN [err |-> <<>>, files |-> files]
    ELSE IF ValuesPath(i) \in DOMAIN fs /\ ~fs[ValuesPath(i)].readable
    THEN [err |-> <<"reading values file">>, files |-> files]
    ELSE LET data == IF ValuesPath(i) \in DOMAIN fs THEN fs[ValuesPath(i)].content ELSE <<>>
             loaded == yamlUnmarshal(data, files[i].Values)
         IN  IF Len(data) > 0 /\ loaded.err
             THEN [err |-> <<"parsing values file">>, files |-> files]
             ELSE LoadValueFiles([files EXCEPT ![i].Values =
                                     IF Len(data) > 0 THEN loaded.Values ELSE @],
                                 fs, i + 1)

\* Chart.FindTemplates: the template files under the templates directory
FindTemplates(fs) ==
    IF TemplatesDir \notin DOMAIN fs
    THEN [err |-> <<"templates directory not found", "stat">>, templates |-> <<>>]
    ELSE IF ~fs[TemplatesDir].readable THEN [err |-> <<"open">>, templates |-> <<>>]
    ELSE [err |-> <<>>,
          templates |-> IF TemplateFile \in DOMAIN fs THEN <<TemplateFile>> ELSE <<>>]

\* Chart.ParseTemplates
RECURSIVE ParseTemplates(_, _, _, _)
ParseTemplates(templates, fs, found, t) ==
    IF t > Len(templates) THEN [err |-> <<>>, refs |-> found, panic |-> FALSE]
    ELSE IF ~fs[templates[t]].readable
    THEN [err |-> <<"opening template", "open">>, refs |-> found, panic |-> FALSE]
    ELSE CHOOSE r \in
             { IF parsed.panic THEN [err |-> <<>>, refs |-> found, panic |-> TRUE]
               ELSE ParseTemplates(templates, fs, found \o parsed.refs, t + 1) :
               parsed \in {ParseFile(ScanText(fs[templates[t]].content), templates[t])} } :
             TRUE

\* the phases of processChart; c holds the Chart (files, templates, refs),
\* the file system, the parts of the message of the error to return, and
\* the trees as they were loaded and as the injector left them.  A phase
\* is skipped when an earlier one has failed
CreatePhase(fs, chartDir) ==
    CHOOSE c \in
        { [err |-> IF chart.err # <<>> THEN <<"error creating chart">> \o chart.err ELSE <<>>,
           files |-> chart.files, loaded |-> chart.files, injected |-> chart.files,
           templates |-> <<>>, refs |-> <<>>, fs |-> fs, panic |-> FALSE] :
          chart \in {NewChart(fs, chartDir)} } : TRUE

LoadPhase(c) ==
    IF c.err # <<>> THEN c
    ELSE CHOOSE next \in
             { [c EXCEPT !.err = IF values.err # <<>>
                                 THEN <<"error loading values">> \o values.err ELSE <<>>,
                        !.files = values.files, !.loaded = values.files,
                        !.injected = values.files] :
               values \in {LoadValueFiles(c.files, c.fs, 1)} } : TRUE

FindPhase(c) ==
    IF c.err # <<>> THEN c
    ELSE CHOOSE next \in
             { [c EXCEPT !.err = IF found.err # <<>>
                                 THEN <<"error finding templates">> \o found.err ELSE <<>>,
                        !.templates = found.templates] :
               found \in {FindTemplates(c.fs)} } : TRUE

\* ParsePhase without the check of the error of ParseTemplates
ParsePhaseUnchecked(c) ==
    IF c.err # <<>> THEN c
    ELSE CHOOSE next \in
             { [c EXCEPT !.refs = parsed.refs, !.panic = parsed.panic] :
               parsed \in {ParseTemplates(c.templates, c.fs, <<>>, 1)} } : TRUE

ParsePhase(c) ==
    IF c.err # <<>> THEN c
    ELSE CHOOSE next \in
             { [c EXCEPT !.err = IF parsed.err # <<>>
                                 THEN <<"error parsing templates">> \o parsed.err ELSE <<>>,
                        !.refs = parsed.refs, !.panic = parsed.panic] :
               parsed \in {ParseTemplates(c.templates, c.fs, <<>>, 1)} } : TRUE

\* chart.ProcessReferences()
ProcessPhase(c) ==
    IF c.err # <<>> \/ c.panic THEN c
    ELSE CHOOSE next \in
             { [c EXCEPT !.files = IF first.panic THEN first.files
                                   ELSE reconcileFiles(first.files,
                                                       collectReferences(c.refs, 1, {}, <<>>)),
                        !.injected = first.files, !.fs = first.fs, !.panic = first.panic] :
               first \in {injectTemplates(c.files, c.fs, c.templates, 1)} } : TRUE

UpdatePhase(c) ==
    IF c.err # <<>> \/ c.panic THEN c
    ELSE CHOOSE next \in
             { [c EXCEPT !.err = IF updated.err # <<>>
                                 THEN <<"error updating values">> \o updated.err ELSE <<>>,
                        !.fs = updated.fs] :
               updated \in {updateValueFiles(c.files, c.fs)} } : TRUE

\* processChart(chartDir, verbose, out)
processChart(fs, chartDir) ==
    CHOOSE r \in { UpdatePhase(processed) :
                      processed \in { ProcessPhase(parsed) :
                        parsed \in { ParsePhase(found) :
                          found \in { FindPhase(loaded) :
                            loaded \in { LoadPhase(created) :
                              created \in {CreatePhase(fs, chartDir)} } } } } } : TRUE

ServiceTemplate == <<"k", "i", "n", "d", ":", " ", "S", "e", "r", "v", "i", "c", "e", "\n", "p", "o", "r", "t", ":", " ", "{", "{", " ", ".", "V", "a", "l", "u", "e", "s", ".", "a", ".", "b", " ", "|", " ", "d", "e", "f", "a", "u", "l", "t", " ", "8", "0", " ", "}", "}", "\n">>

DeploymentTemplate == <<"k", "i", "n", "d", ":", " ", "D", "e", "p", "l", "o", "y", "m", "e", "n", "t", "\n", "s", "p", "e", "c", ":", "\n", " ", " ", "r", "e", "p", "l", "i", "c", "a", "s", ":", " ", "{", "{", " ", ".", "V", "a", "l", "u", "e", "s", ".", "a", " ", "|", " ", "d", "e", "f", "a", "u", "l", "t", " ", "1", " ", "}", "}", "\n">>

\* the content and the permissions of values.yaml; none when it is absent
MainValuesPool ==
    { [content |-> c, readable |-> TRUE, writable |-> TRUE] :
          c \in { ValuesComment, <<"a", ":", " ", "x", "\n">>, <<"a", ":", "\n", " ", " ", "b", ":", " ", "1", "\n", "d", "e", "p", "l", "o", "y", "m", "e", "n", "t", ":", "\n", " ", " ", "s", "t", "r", "a", "t", "e", "g", "y", ":", " ", "x", "\n">>, <<"a", ":", " ", "x", "\n", "f", "o", "o", "\n">> } }
    \cup { [content |-> <<"a", ":", "\n", " ", " ", "b", ":", " ", "1", "\n", "d", "e", "p", "l", "o", "y", "m", "e", "n", "t", ":", "\n", " ", " ", "s", "t", "r", "a", "t", "e", "g", "y", ":", " ", "x", "\n">>, readable |-> FALSE, writable |-> TRUE],
           [content |-> <<"a", ":", "\n", " ", " ", "b", ":", " ", "1", "\n", "d", "e", "p", "l", "o", "y", "m", "e", "n", "t", ":", "\n", " ", " ", "s", "t", "r", "a", "t", "e", "g", "y", ":", " ", "x", "\n">>, readable |-> TRUE, writable |-> FALSE],
           [content |-> ValuesComment, readable |-> TRUE, writable |-> FALSE] }

\* the template file; none when the templates directory is empty
MainTemplatePool ==
    { [content |-> ServiceManifest, readable |-> TRUE, writable |-> TRUE],
      [content |-> ServiceTemplate, readable |-> TRUE, writable |-> TRUE],
      [content |-> DeploymentTemplate, readable |-> TRUE, writable |-> TRUE],
      [content |-> DeploymentTemplate, readable |-> TRUE, writable |-> FALSE],
      [content |-> DeploymentTemplate, readable |-> FALSE, writable |-> TRUE] }

Directory(r) == [content |-> <<>>, readable |-> r, writable |-> TRUE]

\* the file systems processChart is run on
MainDiskPool ==
    { d @@ v @@ (ChartDir :> Directory(TRUE)) :
        d \in { <<>>, TemplatesDir :> Directory(FALSE), TemplatesDir :> Directory(TRUE) }
               \cup { (TemplatesDir :> Directory(TRUE)) @@ (TemplateFile :> t) :
                        t \in MainTemplatePool },
        v \in { <<>> } \cup { ValuesPath(1) :> f : f \in MainValuesPool } }
    \cup { <<>>, ValuesPath(1) :> [content |-> ValuesComment, readable |-> TRUE, writable |-> TRUE] }

InitMain ==
    /\ ParserIdle
    /\ OptionsIdle
    /\ ValuesFiles = <<>>
    /\ References = <<>>
    /\ Templates = <<>>
    /\ disk \in MainDiskPool
    /\ chartPc = "start"
    /\ before = <<>>
    /\ mid = <<>>
    /\ diskBefore = disk
    /\ err = <<>>

\* a run of processChart
ProcessChart ==
    /\ chartPc = "start"
    /\ \E chartDir \in {"", ChartDir} : \E r \in {processChart(disk, chartDir)} :
           /\ ValuesFiles' = r.files
           /\ References' = r.refs
           /\ Templates' = r.templates
           /\ disk' = r.fs
           /\ err' = r.err
           /\ before' = r.loaded
           /\ mid' = r.injected
           /\ chartPc' = IF r.panic THEN "panic" ELSE "returned"
    /\ diskBefore' = disk
    /\ UNCHANGED optionVars
    /\ UNCHANGED parserVars

NextMain == ProcessChart

SpecMain == InitMain /\ [][NextMain]_vars


(***************************************************************************)
(* Claims on the errors of processChart                                    *)
(***************************************************************************)

\* values.yaml of the file system fs cannot be read or cannot be parsed
LoadFails(fs) ==
    /\ ValuesPath(1) \in DOMAIN fs
    /\ \/ ~fs[ValuesPath(1)].readable
       \/ /\ fs[ValuesPath(1)].content # <<>>
          /\ yamlUnmarshal(fs[ValuesPath(1)].content, EmptyMap).err

\* the templates directory of fs is missing or cannot be walked
FindFails(fs) == TemplatesDir \notin DOMAIN fs \/ ~fs[TemplatesDir].readable

\* a template file of fs cannot be opened
ParseFails(fs) == TemplateFile \in DOMAIN fs /\ ~fs[TemplateFile].readable

\* a dirty tree of the Chart has a values file that cannot be written
WriteFails ==
    \E i \in DOMAIN ValuesFiles :
        /\ ValuesFiles[i].Changed
        /\ ValuesPath(i) \in DOMAIN disk
        /\ ~disk[ValuesPath(i)].writable

PhasePrefixes ==
    <<"error creating chart", "error loading values", "error finding templates",
      "error parsing templates", "error updating values">>

\* the phase processChart has to fail in on the file system fs, 6 for none;
\* the chart directory is taken to exist
FailingPhase(fs) ==
    IF LoadFails(fs) THEN 2
    ELSE IF FindFails(fs) THEN 3
    ELSE IF ParseFails(fs) THEN 4
    ELSE IF WriteFails THEN 5
    ELSE 6

\* C20: when creating the chart, loading the values, finding the templates
\* or parsing the templates fails, processChart stops at that phase: it
\* returns an error whose message starts with the prefix of the phase, the
\* later phases have left no trace in the Chart, and no file has been
\* written; a failure to write a values file is returned with the prefix
\* "error updating values"; and no error is returned when no phase fails
C20_PhaseErrorsStopProcessChart ==
    chartPc = "returned" =>
        /\ ChartDir \notin DOMAIN diskBefore => err # <<>> /\ err[1] = PhasePrefixes[1]
        /\ err # <<>> => \E n \in 1..5 : err[1] = PhasePrefixes[n]
        /\ err # <<>> /\ err[1] = PhasePrefixes[1] =>
               /\ disk = diskBefore
               /\ ValuesFiles = <<>> /\ Templates = <<>> /\ References = <<>>
        /\ ~(err # <<>> /\ err[1] = PhasePrefixes[1]) =>
               \E n \in {FailingPhase(diskBefore)} :
                   /\ n <= 5 => err # <<>> /\ err[1] = PhasePrefixes[n]
                   /\ n = 6 => err = <<>>
                   /\ n <= 4 => disk = diskBefore
                   /\ n <= 4 => \A i \in DOMAIN ValuesFiles : ~ValuesFiles[i].Changed
                   /\ n <= 3 => References = <<>>
                   /\ n <= 2 => Templates = <<>>

\* processChart has returned "error parsing templates: opening template:
\* ..." for a chart whose values.yaml is loaded and whose only template, a
\* Deployment, cannot be opened; no file has been written
C20_Witness ==
    /\ chartPc = "returned"
    /\ err = <<"error parsing templates", "opening template", "open">>
    /\ ValuesPath(1) \in DOMAIN diskBefore
    /\ TemplateFile \in DOMAIN diskBefore
    /\ diskBefore[TemplateFile].content = DeploymentTemplate
    /\ Templates = <<TemplateFile>>
    /\ disk = diskBefore


(***************************************************************************)
(* NewChart with options                                                   *)
(***************************************************************************)

\* filepath.Join(dir, name) for a non-empty dir and a name without
\* separators or dots to clean away
filepathJoin(dir, name) == IF name = "" THEN dir ELSE dir \o "/" \o name

\* NewChart(dir, opts...): the error, the config and the values files of the
\* chart
NewChartOptions(fs, dir, options) ==
    IF dir = "" THEN [err |-> <<"invalid chart directory", "directory path is empty">>,
                      config |-> defaultConfig, files |-> <<>>]
    ELSE IF dir \notin DOMAIN fs THEN [err |-> <<"invalid chart directory", "stat">>,
                                       config |-> defaultConfig, files |-> <<>>]
    ELSE CHOOSE chart \in
             { [err |-> <<>>, config |-> c,
                files |-> [i \in DOMAIN c.ValuesFileName |->
                              [Path |-> filepathJoin(dir, c.ValuesFileName[i]),
                               Values |-> EmptyMap, Changed |-> FALSE]]] :
               c \in {newConfig(options)} } : TRUE

MaxOptions == 2

MaxNames == 2

NamePool == {"values.yaml", "values-prod.yaml", "values-dev.yaml"}

NamesPool == UNION { [1..n -> NamePool] : n \in 0..MaxNames }

OptionPool ==
    { WithValuesFileNames(names) : names \in NamesPool }
    \cup { WithTemplatesDir("custom-templates"), WithVerbose(TRUE) }

InitNew ==
    /\ ParserIdle
    /\ ValuesFiles = <<>>
    /\ References = <<>>
    /\ Templates = <<>>
    /\ disk \in { <<>>, ChartDir :> Directory(TRUE) }
    /\ chartPc = "start"
    /\ before = <<>>
    /\ mid = <<>>
    /\ diskBefore = disk
    /\ err = <<>>
    /\ config = defaultConfig
    /\ \E n \in 0..MaxOptions : opts \in [1..n -> OptionPool]
    /\ runs = <<>>

\* a call NewChart(dir, opts...)
NewChartCall ==
    /\ chartPc = "start"
    /\ \E dir \in {"", ChartDir} : \E chart \in {NewChartOptions(disk, dir, opts)} :
           /\ ValuesFiles' = chart.files
           /\ config' = chart.config
           /\ err' = chart.err
           /\ chartPc' = "created"
    /\ UNCHANGED <<References, Templates, disk, before, mid, diskBefore, opts, runs>>
    /\ UNCHANGED parserVars

NextNew == NewChartCall

SpecNew == InitNew /\ [][NextNew]_vars

\* the names NewChart was given with WithValuesFileNames, <<>> when the
\* option was not used
GivenNames ==
    LET given == SelectSeq(opts, LAMBDA o : o.option = "WithValuesFileNames")
    IN  IF given = <<>> THEN <<>> ELSE given[Len(given)].names

NamesOptions == Len(SelectSeq(opts, LAMBDA o : o.option = "WithValuesFileNames"))

\* C21: a chart created with WithValuesFileNames(names) has one values file
\* per given name, in the given order, at the chart root; a chart created
\* without that option has the single values file values.yaml
C21_ValuesFilesAreTheGivenNames ==
    chartPc = "created" /\ err = <<>> =>
        /\ NamesOptions = 0 =>
               /\ Len(ValuesFiles) = 1
               /\ ValuesFiles[1].Path = filepathJoin(ChartDir, "values.yaml")
        /\ NamesOptions = 1 =>
               /\ Len(ValuesFiles) = Len(GivenNames)
               /\ \A i \in DOMAIN ValuesFiles :
                      ValuesFiles[i].Path = filepathJoin(ChartDir, GivenNames[i])


(***************************************************************************)
(* Processes that load, process and write the same chart at the same time. *)
(* Each has its own Chart; os.WriteFile opens the file with O_TRUNC and    *)
(* then writes the data at offset 0, two steps other processes can run     *)
(* between                                                                 *)
(***************************************************************************)

\* the number of processes
MaxRuns == 2

KeyC == <<"c">>

\* the trees values.yaml may hold before the runs
RunsTreePool ==
    { KeyC :> StringNode(<<"v">>),
      (<<"a">> :> StringNode(<<"x">>)) @@ (KeyDeployment :> MapNode(KeyReplicas :> IntNode(3))),
      (KeyC :> StringNode(<<"v">>)) @@ (<<"a">> :> MapNode(<<"b">> :> StringNode(<<>>))) }

\* the reference sequences ParseTemplates finds in the chart
RunsRefPool == { <<>>, <<MkRef(PathA, <<"x">>)>>, <<MkRef(PathAB, <<"x">>)>>,
                 <<MkRef(PathAB, <<>>), MkRef(<<"d">>, <<"y">>)>> }

InitRuns ==
    /\ ParserIdle
    /\ ValuesFiles = <<>>
    /\ References \in RunsRefPool
    /\ Templates = <<>>
    /\ \E tree \in RunsTreePool :
           disk = (ValuesPath(1) :> [content |-> yamlMarshal(tree),
                                     readable |-> TRUE, writable |-> TRUE])
    /\ chartPc = "runs"
    /\ before = <<>>
    /\ mid = <<>>
    /\ diskBefore = disk
    /\ err = <<>>
    /\ config = defaultConfig
    /\ opts = <<>>
    /\ runs = [r \in 1..MaxRuns |->
                  [pc |-> "created", Values |-> EmptyMap, Changed |-> FALSE, seen |-> <<>>]]

\* chart.LoadValueFiles() of run r
RunLoad(r) ==
    /\ runs[r].pc = "created"
    /\ \E loaded \in {LoadValueFiles(<<[Values |-> runs[r].Values, Changed |-> FALSE]>>, disk, 1)} :
           runs' = [runs EXCEPT ![r].pc = IF loaded.err # <<>> THEN "failed" ELSE "loaded",
                                ![r].Values = loaded.files[1].Values,
                                ![r].seen = disk[ValuesPath(1)].content]
    /\ UNCHANGED <<ValuesFiles, References, Templates, disk, chartPc, before, mid,
                   diskBefore, err, config, opts>>
    /\ UNCHANGED parserVars

\* chart.ProcessReferences() of run r; the chart has no Deployment template
RunProcess(r) ==
    /\ runs[r].pc = "loaded"
    /\ \E files \in {reconcileFiles(<<[Values |-> runs[r].Values, Changed |-> FALSE]>>,
                                    collectReferences(References, 1, {}, <<>>))} :
           runs' = [runs EXCEPT ![r].pc = IF files[1].Changed THEN "processed" ELSE "done",
                                ![r].Values = files[1].Values,
                                ![r].Changed = files[1].Changed]
    /\ UNCHANGED <<ValuesFiles, References, Templates, disk, chartPc, before, mid,
                   diskBefore, err, config, opts>>
    /\ UNCHANGED parserVars

\* os.WriteFile of run r, first half: the file is opened and truncated
RunTruncate(r) ==
    /\ runs[r].pc = "processed"
    /\ disk' = [disk EXCEPT ![ValuesPath(1)].content = <<>>]
    /\ runs' = [runs EXCEPT ![r].pc = "opened"]
    /\ UNCHANGED <<ValuesFiles, References, Templates, chartPc, before, mid,
                   diskBefore, err, config, opts>>
    /\ UNCHANGED parserVars

\* os.WriteFile of run r, second half: the data is written at offset 0 over
\* what the file holds by now
RunWrite(r) ==
    /\ runs[r].pc = "opened"
    /\ \E data \in {yamlMarshal(runs[r].Values)} : \E old \in {disk[ValuesPath(1)].content} :
           disk' = [disk EXCEPT ![ValuesPath(1)].content =
                       data \o SubSeq(old, Len(data) + 1, Len(old))]
    /\ runs' = [runs EXCEPT ![r].pc = "done"]
    /\ UNCHANGED <<ValuesFiles, References, Templates, chartPc, before, mid,
                   diskBefore, err, config, opts>>
    /\ UNCHANGED parserVars

NextRuns ==
    \E r \in 1..MaxRuns : RunLoad(r) \/ RunProcess(r) \/ RunTruncate(r) \/ RunWrite(r)

SpecRuns == InitRuns /\ [][NextRuns]_vars

\* the top-level keys of the tree a values file with the text data holds
TopKeys(data) ==
    IF data = <<>> THEN {}
    ELSE LET loaded == yamlUnmarshal(data, EmptyMap)
         IN  IF loaded.err THEN {} ELSE DOMAIN loaded.Values

RunsEnded == \A r \in DOMAIN runs : runs[r].pc \in {"done", "failed"}

\* the complete contents values.yaml has held or is given by a run
WholeContents ==
    {diskBefore[ValuesPath(1)].content}
    \cup { yamlMarshal(runs[q].Values) : q \in { r \in DOMAIN runs : runs[r].pc \in {"opened", "done"} } }

\* C22: when runs on the same chart interleave, every run loads values.yaml
\* as its complete old content or as the complete content a run writes,
\* never as a partially written or empty file, and every key the file held
\* before the runs is in the file when the runs have ended
C22_ConcurrentRunsSeeWholeFiles ==
    chartPc = "runs" =>
        /\ \A r \in DOMAIN runs :
               runs[r].pc # "created" => runs[r].seen \in WholeContents
        /\ RunsEnded =>
               TopKeys(diskBefore[ValuesPath(1)].content) \subseteq TopKeys(disk[ValuesPath(1)].content)


(***************************************************************************)
(* ProcessReferences on a chart with two templates                         *)
(***************************************************************************)

SecondTemplateFile == "templates/u.yaml"

\* a template file: its content and whether it can be read and written
TemplateFilePool ==
    { [content |-> DeploymentManifest, readable |-> TRUE, writable |-> TRUE],
      [content |-> DeploymentManifest, readable |-> TRUE, writable |-> FALSE],
      [content |-> DeploymentManifest, readable |-> FALSE, writable |-> TRUE],
      [content |-> ServiceManifest, readable |-> FALSE, writable |-> TRUE],
      [content |-> ServiceManifest, readable |-> TRUE, writable |-> TRUE] }

\* a chart with two templates after NewChart, LoadValueFiles, FindTemplates
\* and ParseTemplates
InitTemplates ==
    /\ ParserIdle
    /\ OptionsIdle
    /\ \E n \in 1..MaxFiles : \E trees \in [1..n -> TreePool] :
           ValuesFiles = [i \in 1..n |-> [Values |-> trees[i], Changed |-> FALSE]]
    /\ References \in FilesRefPool
    /\ Templates = <<TemplateFile, SecondTemplateFile>>
    /\ \E t \in TemplateFilePool : \E u \in TemplateFilePool :
           disk = (TemplateFile :> t) @@ (SecondTemplateFile :> u)
    /\ chartPc = "loaded"
    /\ before = <<>>
    /\ mid = <<>>
    /\ diskBefore = disk
    /\ err = <<>>

NextTemplates == ProcessReferences

SpecTemplates == InitTemplates /\ [][NextTemplates]_vars

\* the template file at path could not be read by the injector
ReadFailed(path) == ~diskBefore[path].readable

\* the injector could not write the rewritten template at path: a
\* Deployment manifest met with a tree that had no deployment.strategy
WriteFailed(path) ==
    /\ diskBefore[path].readable /\ ~diskBefore[path].writable
    /\ IsDeployment(diskBefore[path].content)
    /\ \E i \in DOMAIN before : ~HasStrategy(before[i].Values)

\* the trees that had no deployment.strategy when ProcessReferences began;
\* a failed write of the first template leaves the first of them with it
LackingStrategy == { i \in DOMAIN before : ~HasStrategy(before[i].Values) }

\* C23: when the injector cannot read the first template or cannot write
\* its rewritten text, ProcessReferences still returns normally, has run the
\* injector on the second template (a readable and writable Deployment
\* manifest leaves every tree with deployment.strategy, and is rewritten on
\* disk when a tree was still without the strategy at its turn), and has
\* reconciled every reference into every values tree
C23_InjectionFailureIsNotFatal ==
    /\ Len(Templates) = 2
    /\ chartPc # "loaded"
    /\ ReadFailed(TemplateFile) \/ WriteFailed(TemplateFile)
    =>
    /\ chartPc = "processed"
    /\ \A i \in DOMAIN ValuesFiles : \A j \in DOMAIN References :
           valueExists(ValuesFiles[i].Values, References[j].Path)
    /\ /\ diskBefore[SecondTemplateFile].readable /\ diskBefore[SecondTemplateFile].writable
       /\ IsDeployment(diskBefore[SecondTemplateFile].content)
       =>
       /\ \A i \in DOMAIN ValuesFiles : HasStrategy(ValuesFiles[i].Values)
       /\ \/ ReadFailed(TemplateFile) /\ LackingStrategy # {}
          \/ Cardinality(LackingStrategy) >= 2
          => disk[SecondTemplateFile].content =
                 updateDeploymentTemplate(diskBefore[SecondTemplateFile].content)
    /\ disk[TemplateFile] = diskBefore[TemplateFile]

\* ProcessReferences has returned on a chart whose first template, a
\* Deployment, could not be written and whose second template, a
\* Deployment too, was rewritten for the second tree; both trees hold the
\* strategy and the referenced path
C23_Witness ==
    /\ chartPc = "processed"
    /\ Len(Templates) = 2
    /\ WriteFailed(TemplateFile)
    /\ Len(ValuesFiles) = 2
    /\ disk[SecondTemplateFile].content # diskBefore[SecondTemplateFile].content
    /\ References # <<>>
    /\ \A i \in DOMAIN ValuesFiles :
           /\ HasStrategy(ValuesFiles[i].Values)
           /\ ~HasStrategy(before[i].Values)
           /\ valueExists(ValuesFiles[i].Values, References[1].Path)


(***************************************************************************)
(* updateDeploymentTemplate as a function of the template text             *)
(***************************************************************************)

\* the parts the texts are put together from: the lines before spec:, the
\* indentation of the spec: line and what trails it, the lines between
\* spec: and its first key, the indentation of that key and what trails it,
\* and the rest of the text
HeadPool == { <<"k", "i", "n", "d", ":", " ", "D", "e", "p", "l", "o", "y", "m", "e", "n", "t", "\n">>,
      <<"k", "i", "n", "d", ":", " ", "D", "e", "p", "l", "o", "y", "m", "e", "n", "t", "\n", "m", "e", "t", "a", "d", "a", "t", "a", ":", "\n", " ", " ", "n", "a", "m", "e", ":", " ", "x", "\n">> }

SpecIndentPool == { <<>>,
      <<" ", " ">> }

TrailPool == { <<"\n">>,
      <<" ", "\n">>,
      <<" ", " ", "\n">>,
      <<"\n", "\n">> }

FillerPool == { <<>>,
      <<"{", "{", "-", " ", "i", "f", " ", ".", "V", "a", "l", "u", "e", "s", ".", "x", " ", "}", "}", "\n">>,
      <<" ", " ", "#", " ", "c", "\n">> }

KeyIndentPool == { <<>>,
      <<" ">>,
      <<" ", " ">>,
      <<" ", " ", " ", " ">>,
      <<"\t">> }

KeyLinePool == { <<"r", "e", "p", "l", "i", "c", "a", "s", ":", " ", "1">>,
      <<"r", "e", "p", "l", "i", "c", "a", "s", ":", " ", "1", " ">>,
      <<"s", "t", "r", "a", "t", "e", "g", "y", ":", "\n", " ", " ", " ", " ", " ", " ", "t", "y", "p", "e", ":", " ", "R", "e", "c", "r", "e", "a", "t", "e">> }

RestPool == { <<>>,
      <<"\n", " ", " ", "t", "e", "m", "p", "l", "a", "t", "e", ":", "\n", " ", " ", " ", " ", "s", "p", "e", "c", ":", "\n", " ", " ", " ", " ", " ", " ", "a", ":", " ", "x", "\n", " ", " ", "s", "t", "r", "a", "t", "e", "g", "y", ":", "\n", " ", " ", " ", " ", "t", "y", "p", "e", ":", " ", "R", "e", "c", "r", "e", "a", "t", "e">>,
      <<"\n", "s", "t", "a", "t", "u", "s", ":", " ", "x", "\n">> }

\* the template texts updateDeploymentTemplate is applied to
TextPool ==
    { head \o indent \o SpecLine \o trail \o filler \o keyIndent \o key \o rest :
        head \in HeadPool, indent \in SpecIndentPool, trail \in TrailPool,
        filler \in FillerPool, keyIndent \in KeyIndentPool, key \in KeyLinePool,
        rest \in RestPool }
    \cup { <<"k", "i", "n", "d", ":", " ", "D", "e", "p", "l", "o", "y", "m", "e", "n", "t", "\n", "s", "p", "e", "c", ":">>, <<"k", "i", "n", "d", ":", " ", "D", "e", "p", "l", "o", "y", "m", "e", "n", "t", "\n", "m", "e", "t", "a", "d", "a", "t", "a", ":", "\n", " ", " ", "n", "a", "m", "e", ":", " ", "x">> }

InitUpdate ==
    /\ ParserIdle
    /\ OptionsIdle
    /\ ValuesFiles = <<>>
    /\ References = <<>>
    /\ Templates = <<TemplateFile>>
    /\ \E content \in TextPool :
           disk = (TemplateFile :> [content |-> content, readable |-> TRUE, writable |-> TRUE])
    /\ chartPc = "read"
    /\ before = <<>>
    /\ mid = <<>>
    /\ diskBefore = disk
    /\ err = <<>>

\* updatedContent := updateDeploymentTemplate(content), written back to the
\* template file
UpdateDeploymentTemplate ==
    /\ chartPc = "read"
    /\ \E updatedContent \in {updateDeploymentTemplate(disk[TemplateFile].content)} :
           IF updatedContent = <<OutOfRange>>
           THEN chartPc' = "panic" /\ disk' = disk
           ELSE /\ chartPc' = "rewritten"
                /\ disk' = [disk EXCEPT ![TemplateFile].content = updatedContent]
    /\ diskBefore' = disk
    /\ UNCHANGED <<ValuesFiles, References, Templates, before, mid, err>>
    /\ UNCHANGED optionVars
    /\ UNCHANGED parserVars

NextUpdate == UpdateDeploymentTemplate

SpecUpdate == InitUpdate /\ [][NextUpdate]_vars


(***************************************************************************)
(* Claims on updateDeploymentTemplate                                      *)
(***************************************************************************)

\* the lines of the template before and after updateDeploymentTemplate
OldLines == Split(diskBefore[TemplateFile].content, "\n")

NewLines == Split(disk[TemplateFile].content, "\n")

\* updateDeploymentTemplate has returned a text that differs from its input
Rewritten == chartPc = "rewritten" /\ disk # diskBefore

\* the leading whitespace of a line
Indentation(line) == SubSeq(line, 1, Len(line) - Len(TrimLeft(line, {" ", "\t"})))

\* new is old with five lines added right after line s, a spec: line
InsertedAfter(old, new, s) ==
    /\ TrimSpace(old[s]) = SpecLine
    /\ Len(new) = Len(old) + 5
    /\ SubSeq(new, 1, s) = SubSeq(old, 1, s)
    /\ SubSeq(new, s + 6, Len(new)) = SubSeq(old, s + 1, Len(old))

\* the first line after line s that is neither blank nor a template
\* directive, 0 when there is none
FirstKeyAfter(lines, s) ==
    LET ks == { j \in (s + 1)..Len(lines) : IsKeyLine(lines[j]) }
    IN  IF ks = {} THEN 0 ELSE CHOOSE j \in ks : \A k \in ks : j <= k

\* the five lines to insert after the spec: line s: strategy: with the
\* indentation of the first key after it, the unit being that indentation
\* less the indentation of spec:, or two spaces when there is no such key
IndentedBlock(lines, s) ==
    LET first == FirstKeyAfter(lines, s)
        unit == IF first = 0 THEN 2
                ELSE Len(Indentation(lines[first])) - Len(Indentation(lines[s]))
        base == IF first = 0 THEN Indentation(lines[s]) \o <<" ", " ">>
                ELSE Indentation(lines[first])
    IN  IF unit < 0 THEN <<>> ELSE strategySection(base, unit)

\* C24: the five lines updateDeploymentTemplate inserts after the spec: line
\* are indented from the first non-blank line after it that is not a
\* template directive: strategy: as that line, type: and rollingUpdate: one
\* unit further, maxSurge: and maxUnavailable: two units further, the unit
\* being that line's indentation less that of spec: (two spaces when there
\* is no such line), and each of them starts with whitespace only
C24_InsertedBlockIndentation ==
    Rewritten =>
        \E s \in DOMAIN OldLines :
            /\ InsertedAfter(OldLines, NewLines, s)
            /\ SubSeq(NewLines, s + 1, s + 5) = IndentedBlock(OldLines, s)
            /\ \A k \in 1..5 : TrimSpace(NewLines[s + k]) = strategySection(<<>>, 0)[k]


\* C27: updateDeploymentTemplate returns normally on every template text:
\* the indentation width is never negative, so no indentation string is
\* built with a negative repeat count
C27_UpdateReturnsNormally == chartPc # "panic"

\* C28: the text updateDeploymentTemplate returns is its input, or its input
\* with five lines added right after one spec: line: every line of the
\* input is kept, in order and byte for byte
C28_RewriteIsPureInsertion ==
    chartPc = "rewritten" =>
        \/ disk[TemplateFile].content = diskBefore[TemplateFile].content
        \/ \E s \in DOMAIN OldLines : InsertedAfter(OldLines, NewLines, s)

\* a text with lines before and after the spec: line has been rewritten
C28_Witness ==
    /\ Rewritten
    /\ \E s \in DOMAIN OldLines :
           /\ 1 < s
           /\ s < Len(OldLines)
           /\ InsertedAfter(OldLines, NewLines, s)


(***************************************************************************)
(* Claims on the injection across values trees                             *)
(***************************************************************************)

\* C29: injectDeploymentStrategy on one template treats the values trees
\* alike: when the rewritten template cannot be written no tree has gained
\* deployment.strategy or been marked dirty, and otherwise every tree of a
\* Deployment chart holds deployment.strategy
C29_InjectionAllOrNothing ==
    chartPc = "injected" =>
        /\ err = <<"updating template">> =>
               \A i \in DOMAIN ValuesFiles : ValuesFiles[i] = before[i]
        /\ \/ \A i \in DOMAIN ValuesFiles :
                  HasStrategy(before[i].Values) \/ ~HasStrategy(ValuesFiles[i].Values)
           \/ \A i \in DOMAIN ValuesFiles : HasStrategy(ValuesFiles[i].Values)


(***************************************************************************)
(* Claims on the order of the references                                   *)
(***************************************************************************)

\* the permutations of 1..n
Orders(n) == { f \in [1..n -> 1..n] : \A i, j \in 1..n : f[i] = f[j] => i = j }

\* the references in the order f
Permuted(references, f) == [i \in DOMAIN references |-> references[f[i]]]

\* f keeps the relative order of the references that share a path
KeepsSamePathOrder(references, f) ==
    \A i, j \in DOMAIN references :
        i < j /\ references[f[i]].Path = references[f[j]].Path => f[i] < f[j]

\* C26: the trees ProcessReferences leaves do not depend on the order of the
\* references with different paths: the second and third pass on the
\* references in any order that keeps the relative order of the references
\* sharing a path give equal trees, also when one path is a prefix of another
C26_ReferenceOrderIsIrrelevant ==
    chartPc = "processed" =>
        \A f \in Orders(Len(References)) :
            KeepsSamePathOrder(References, f) =>
                \A i \in DOMAIN ValuesFiles :
                    reconcileFile(mid[i], collectReferences(Permuted(References, f), 1, {}, <<>>), 1).Values
                        = ValuesFiles[i].Values

\* two references, the path of one a prefix of the other's, both missing
\* from a tree that ProcessReferences has written them to
C26_Witness ==
    /\ chartPc = "processed"
    /\ Len(References) = 2
    /\ References[1].Path = PathA /\ References[2].Path = PathAB
    /\ \E i \in DOMAIN ValuesFiles :
           /\ ~valueExists(mid[i].Values, PathA)
           /\ NodeAt(ValuesFiles[i].Values, <<PathA>>) # <<>>
           /\ valueExists(ValuesFiles[i].Values, PathAB)


(***************************************************************************)
(* Claims on the shape of the defaults                                     *)
(***************************************************************************)

\* s without the backslashes that escape the character after them
RECURSIVE Unescape(_)
Unescape(s) ==
    IF s = <<>> THEN <<>>
    ELSE IF Head(s) = "\\"
    THEN IF Len(s) = 1 THEN <<>> ELSE <<s[2]>> \o Unescape(SubSeq(s, 3, Len(s)))
    ELSE <<Head(s)>> \o Unescape(Tail(s))

\* d is what stands between two equal quotes of the input
IsQuotedContent(d) ==
    \E lo \in 0..(Len(input) - 1) : \E hi \in (lo + 1)..(Len(input) - 1) :
        /\ CharAt(lo) \in {"\"", "'"}
        /\ CharAt(hi) = CharAt(lo)
        /\ d = Unescape(Slice(input, lo + 1, hi))

\* d is made of digits and dots and holds a digit
IsNumericLiteral(d) ==
    /\ \A k \in DOMAIN d : isDigit(d[k]) \/ d[k] = "."
    /\ \E k \in DOMAIN d : isDigit(d[k])

\* C30: the default of every reference ParseFile returns is empty, the
\* content of a quoted string, or a numeric literal holding a digit; an
\* argument of default that is neither quoted nor numeric gives the empty
\* default
C30_DefaultIsLiteralOrEmpty ==
    pc = "done" =>
        \A n \in DOMAIN refs :
            \/ refs[n].DefaultValue = <<>>
            \/ IsQuotedContent(refs[n].DefaultValue)
            \/ IsNumericLiteral(refs[n].DefaultValue)


(***************************************************************************)
(* The pipeline of processChart run twice on a chart with several values   *)
(* files                                                                   *)
(***************************************************************************)

\* the names given to WithValuesFileNames for a chart of n values files
ExtraNames(n) == [i \in 1..(n - 1) |-> ValuesPath(i + 1)]

\* NewChart(chartDir, WithValuesFileNames(names)) followed by the calls of
\* processChart: LoadValueFiles, FindTemplates, ParseTemplates,
\* ProcessReferences and UpdateValueFiles
runPipeline(fs, chartDir, names) ==
    CHOOSE r \in { UpdatePhase(processed) :
                      processed \in { ProcessPhase(parsed) :
                        parsed \in { ParsePhase(found) :
                          found \in { FindPhase(loaded) :
                            loaded \in { LoadPhase(created) :
                              created \in
                                { [err |-> IF chart.err # <<>>
                                           THEN <<"error creating chart">> \o chart.err
                                           ELSE <<>>,
                                   files |-> [i \in DOMAIN chart.files |->
                                                 [Values |-> chart.files[i].Values,
                                                  Changed |-> chart.files[i].Changed]],
                                   loaded |-> <<>>, injected |-> <<>>,
                                   templates |-> <<>>, refs |-> <<>>, fs |-> fs,
                                   panic |-> FALSE] :
                                  chart \in {NewChartOptions(fs, chartDir,
                                                             <<WithValuesFileNames(names)>>)} }
                            } } } } } : TRUE

\* the values files of the chart: a tree without deployment, a tree whose
\* deployment.strategy is a string, and a tree with the default strategy
TwiceValuesPool ==
    { [content |-> c, readable |-> TRUE, writable |-> TRUE] :
          c \in { <<"a", ":", " ", "x", "\n">>,
                  <<"a", ":", "\n", " ", " ", "b", ":", " ", "1", "\n", "d", "e", "p", "l", "o", "y", "m", "e", "n", "t", ":", "\n", " ", " ", "s", "t", "r", "a", "t", "e", "g", "y", ":", " ", "x", "\n">>,
                  yamlMarshal(KeyDeployment :> MapNode(KeyStrategy :> MapNode(defaultDeploymentStrategy))) } }

\* the file systems the pipeline is run on: the chart directory, its
\* templates directory with at most one template, and the values files
TwiceDiskPool ==
    { (ChartDir :> Directory(TRUE)) @@ (TemplatesDir :> Directory(TRUE)) @@ t @@ v :
        t \in { <<>> } \cup { TemplateFile :> f : f \in MainTemplatePool },
        v \in UNION { { [p \in { ValuesPath(i) : i \in present } |-> content[p]] :
                          content \in [{ ValuesPath(i) : i \in present } -> TwiceValuesPool] } :
                      present \in SUBSET (1..MaxFiles) } }

InitTwice ==
    /\ ParserIdle
    /\ \E n \in 1..MaxFiles :
           /\ opts = <<WithValuesFileNames(ExtraNames(n))>>
           /\ config = newConfig(opts)
    /\ runs = <<>>
    /\ ValuesFiles = <<>>
    /\ References = <<>>
    /\ Templates = <<>>
    /\ disk \in TwiceDiskPool
    /\ chartPc = "start"
    /\ before = <<>>
    /\ mid = <<>>
    /\ diskBefore = disk
    /\ err = <<>>

\* one run of the pipeline; a second run follows a run that has returned
\* no error
RunPipeline ==
    /\ chartPc \in {"start", "first"}
    /\ \E r \in {runPipeline(disk, ChartDir, opts[1].names)} :
           /\ ValuesFiles' = r.files
           /\ References' = r.refs
           /\ Templates' = r.templates
           /\ disk' = r.fs
           /\ err' = r.err
           /\ before' = r.loaded
           /\ mid' = r.injected
           /\ chartPc' = IF r.panic THEN "panic"
                         ELSE IF r.err # <<>> THEN "failed"
                         ELSE IF chartPc = "start" THEN "first" ELSE "second"
    /\ diskBefore' = disk
    /\ UNCHANGED optionVars
    /\ UNCHANGED parserVars

NextTwice == RunPipeline

SpecTwice == InitTwice /\ [][NextTwice]_vars

\* C25: a second run of the pipeline on the chart a first run left, the
\* first having returned no error, changes no values file and no template
\* file and marks no tree dirty, whatever the number of values files and
\* whatever strategy entries they held
C25_SecondRunChangesNothing ==
    chartPc = "second" =>
        /\ disk = diskBefore
        /\ \A i \in DOMAIN ValuesFiles : ~ValuesFiles[i].Changed

====
